---- MODULE Spec2Model ----
(***************************************************************************)
(* Model of the comment monitor of src/main.py: the dedup and window       *)
(* filter (CommentMonitor.get_new_comments), the per-source polling task   *)
(* (_check_single_parser), the cycle (check_parsers / run), the state      *)
(* file (load_state / save_state), the parser list (get_configured_parsers)*)
(* and the fetch clients of the adapters (make_request_with_retry of       *)
(* vk_parser.py and youtube_parser.py, make_api_request and                *)
(* get_access_token of reddit_parser.py), the deliveries to Telegram       *)
(* (send_comment, send_error), the shutdown of run(), and get_comments of  *)
(* the three adapters.                                                     *)
(*                                                                         *)
(* Strings are sequences of one-character strings, so that the f-string    *)
(* key of get_new_comments is a real concatenation.  A timestamp is a      *)
(* datetime: a wall-clock value, and for a timezone-aware datetime the     *)
(* offset of its zone from UTC.                                            *)
(***************************************************************************)
EXTENDS Integers, Sequences, FiniteSets, TLC

VARIABLES
    config,             \* SOCIAL_NETWORKS: the settings of the three networks
    parsers,            \* self.parsers: the source names of the configured parsers
    feed,               \* per source, the batches its get_comments may return
    disk,               \* content of self.state_file (NoFile when absent)
    last_comments,      \* self.last_comments: source name -> stored list
    first_run,          \* self.first_run
    parser_start_time,  \* self.parser_start_time (naive UTC)
    total_checks,       \* self.stats['total_checks']
    total_errors,       \* self.stats['total_errors']
    parser_stats,       \* self.stats['parser_stats']: per source, checks and errors
    clock,              \* the current time (UTC)
    phase,              \* "idle" between cycles, "cycling" inside check_parsers,
                        \* "down" when the process has ended
    pc,                 \* per source, the position of its _check_single_parser task
    result,             \* per source, the result dict of its task
    pending,            \* per source, the part of limited_comments still to send
    sink,               \* per source, the comments passed to send_comment this cycle
    sentBefore,         \* per source, the author, text and url of what was sent in earlier cycles
    alerts,             \* per source, the send_error calls made for it this cycle
    saves,              \* the save_state calls made since the cycle began
    fArgs,              \* filter harness: arguments of the get_new_comments calls
    fPre,               \* filter harness: monitor state before the first call
    fOut,               \* filter harness: the values returned so far
    kPair,              \* key harness: two comments
    kKeys,              \* key harness: their dedup keys, once computed
    rq,                 \* fetch client: one logical request and the adapter state it uses
    yt,                 \* YouTube adapter: the position of get_comments and its cache
    tg,                 \* Telegram sender: the delivery in progress
    run,                \* run(): the shutdown event, the finally clause, and the
                        \* batches fetched and sent in the cycles so far
    ad                  \* adapter harness: the answers of the API and what
                        \* get_comments returned for them

vars == <<config, parsers, feed, disk, last_comments, first_run, parser_start_time,
          total_checks, total_errors, parser_stats, clock, phase, pc, result,
          pending, sink, sentBefore, alerts, saves,
          fArgs, fPre, fOut, kPair, kKeys, rq, yt, tg, run, ad>>

monitorVars == <<config, parsers, feed, disk, last_comments, first_run, parser_start_time,
                 total_checks, total_errors, parser_stats, clock, phase, pc, result,
                 pending, sink, sentBefore, alerts, saves>>
filterVars == <<fArgs, fPre, fOut>>
keyVars == <<kPair, kKeys>>
clientVars == <<rq, yt, tg, run, ad>>

----------------------------------------------------------------------------
(* Bounds of the model *)

\* largest wall-clock value of a timestamp; instants are 0..MaxTime
MaxTime == 2
\* longest batch drawn element by element from the item universe
MaxBatch == 2
\* number of polling cycles explored
MaxCycles == 3
\* length of the batch of distinct fresh comments that exceeds the send cap
BigNew == 11
\* length of the batch of distinct comments that exceeds the stored window
BigWindow == 101

----------------------------------------------------------------------------
(* Data *)

SourceNames == {"YouTube", "VK", "Reddit (r/python)"}

Times == 0..MaxTime

NoFile == [exists |-> FALSE]

Naive(w) == [wall |-> w, aware |-> FALSE, off |-> 0]
Aware(w, o) == [wall |-> w, aware |-> TRUE, off |-> o]

\* Comment(author, text, source, timestamp, source_url); the source field is
\* the name of the parser the comment is filed under
Comment(author, text, timestamp, source_url) ==
    [author |-> author, text |-> text, timestamp |-> timestamp, source_url |-> source_url]

\* the author, text and url of a comment
Triple(c) == <<c.author, c.text, c.source_url>>

Min(a, b) == IF a < b THEN a ELSE b

\* Python's seq[:n]
Slice(seq, n) == SubSeq(seq, 1, Min(n, Len(seq)))

SeqsUpTo(S, n) == UNION {[1..k -> S] : k \in 0..n}

----------------------------------------------------------------------------
(* get_new_comments *)

\* comment.timestamp brought to a naive UTC datetime (lines 536-541)
comment_time(comment) ==
    IF comment.timestamp.aware
    THEN comment.timestamp.wall - comment.timestamp.off
    ELSE comment.timestamp.wall

\* a timestamp that is a datetime; any other value (None, a string) makes
\* the body of the try of lines 534-552 raise
is_datetime(timestamp) == "wall" \in DOMAIN timestamp

\* the test of line 543, and the except clause of lines 553-556 that skips
\* the comment when the test raised
PassesStartMutStrict(comment) == comment_time(comment) > parser_start_time
PassesStartMutNone(comment) == TRUE
PassesStartMutKeepsUncompared(comment) ==
    is_datetime(comment.timestamp) => comment_time(comment) >= parser_start_time
PassesStart(comment) ==
    is_datetime(comment.timestamp) /\ comment_time(comment) >= parser_start_time

\* the loop of lines 530-556: the comments that pass the test, in order
filtered_comments(current_comments) == SelectSeq(current_comments, PassesStart)

\* key = f"{comment.author}_{comment.text}_{comment.source_url}" (lines 577, 585)
KeyMutWithTime(comment) ==
    comment.author \o <<"_">> \o comment.text \o <<"_">> \o comment.source_url
        \o <<"_">> \o <<ToString(comment.timestamp.wall)>>
Key(comment) ==
    comment.author \o <<"_">> \o comment.text \o <<"_">> \o comment.source_url

\* the set built by the loop of lines 573-578
known_comments(stored) == {Key(stored[i]) : i \in 1..Len(stored)}

\* the loop of lines 582-590: the filtered comments whose key is not known,
\* in order
new_comments_of(filtered, known) ==
    LET IsNew(comment) == Key(comment) \notin known
    IN  SelectSeq(filtered, IsNew)

GetNewCommentsMutNoGuards(parser_name, current_comments) ==
    new_comments_of(filtered_comments(current_comments),
                    IF parser_name \in DOMAIN last_comments
                    THEN known_comments(last_comments[parser_name])
                    ELSE {})
GetNewCommentsMutNoSourceCheck(parser_name, current_comments) ==
    IF first_run THEN <<>>
    ELSE new_comments_of(filtered_comments(current_comments),
                         IF parser_name \in DOMAIN last_comments
                         THEN known_comments(last_comments[parser_name])
                         ELSE {})
get_new_comments(parser_name, current_comments) ==
    IF first_run THEN <<>>
    ELSE IF parser_name \notin DOMAIN last_comments THEN <<>>
    ELSE new_comments_of(filtered_comments(current_comments),
                         known_comments(last_comments[parser_name]))

----------------------------------------------------------------------------
(* save_last_comments, and the state file *)

\* comments[:100] of line 525
StoredWindowMutAll(comments) == comments
StoredWindow(comments) == Slice(comments, 100)

\* self.last_comments[parser_name] = comments[:100]
save_last_comments(parser_name, comments) ==
    [x \in DOMAIN last_comments \cup {parser_name} |->
        IF x = parser_name THEN StoredWindow(comments) ELSE last_comments[x]]

\* new_comments[:10] of line 649
LimitedCommentsMutNoCap(new_comments) == new_comments
limited_comments(new_comments) == Slice(new_comments, 10)

\* datetime.isoformat() (line 873): the text of a datetime, with the offset
\* of its zone when it is aware
isoformat(ts) ==
    IF ts.aware THEN <<ToString(ts.wall), "+", ToString(ts.off)>>
    ELSE <<ToString(ts.wall)>>

IsIntText(x) == \E n \in Times : ToString(n) = x

IntOf(x) == CHOOSE n \in Times : ToString(n) = x

\* the texts datetime.fromisoformat (line 839) accepts; it raises on any other
IsIsoformat(text) ==
    \/ Len(text) = 1 /\ IsIntText(text[1])
    \/ Len(text) = 3 /\ IsIntText(text[1]) /\ text[2] = "+" /\ IsIntText(text[3])

fromisoformat(text) ==
    IF Len(text) = 1 THEN Naive(IntOf(text[1]))
    ELSE Aware(IntOf(text[1]), IntOf(text[3]))

\* the dict save_state writes for a comment (lines 869-875)
comment_jsonMutSwapped(source, comment) ==
    [author |-> comment.text,
     text |-> comment.author,
     source |-> source,
     timestamp |-> isoformat(comment.timestamp),
     source_url |-> comment.source_url]
comment_json(source, comment) ==
    [author |-> comment.author,
     text |-> comment.text,
     source |-> source,
     timestamp |-> isoformat(comment.timestamp),
     source_url |-> comment.source_url]

\* the data save_state builds (lines 865-886) from the stored lists lc and the
\* start time pst, as a file json.dump has written in full
state_json(lc, pst) ==
    [exists |-> TRUE,
     complete |-> TRUE,
     last_comments |-> [s \in DOMAIN lc |->
                           [i \in 1..Len(lc[s]) |-> comment_json(s, lc[s][i])]],
     parser_start_time |-> isoformat(Naive(pst))]

save_state == state_json(last_comments, parser_start_time)

\* a file that open(..., 'w') has truncated and json.dump has not finished
Partial == [exists |-> TRUE, complete |-> FALSE]

\* how a call of save_state can end: the file is written; open raises (the
\* file is left alone); json.dump raises after open has truncated the file.
\* The except clause of line 889 logs the exception and save_state returns.
WriteOutcomes == {"written", "open_failed", "dump_failed"}

\* the file after a call of save_state that ended with `outcome` (lines 887-890)
write_state_file(outcome) ==
    CASE outcome = "written" -> save_state
      [] outcome = "open_failed" -> disk
      [] outcome = "dump_failed" -> Partial

\* the keys load_state reads from the dict of a comment (lines 836-840)
RequiredFields == {"author", "text", "timestamp", "source_url"}

\* Comment(...) of lines 835-841 raises on this dict
Unloadable(comment_data) ==
    \/ ~(RequiredFields \subseteq DOMAIN comment_data)
    \/ ~IsIsoformat(comment_data.timestamp)

\* the last_comments restored by load_state (lines 825-860) from a file: any
\* exception leaves self.last_comments as __init__ set it, an empty dict
load_state(file) ==
    IF ~file.exists THEN << >>
    ELSE IF ~file.complete THEN << >>
    ELSE IF \E s \in DOMAIN file.last_comments :
               \E i \in 1..Len(file.last_comments[s]) :
                   Unloadable(file.last_comments[s][i])
         THEN << >>
    ELSE [s \in DOMAIN file.last_comments |->
             [i \in 1..Len(file.last_comments[s]) |->
                 Comment(file.last_comments[s][i].author,
                         file.last_comments[s][i].text,
                         fromisoformat(file.last_comments[s][i].timestamp),
                         file.last_comments[s][i].source_url)]]

----------------------------------------------------------------------------
(* The batches get_comments may return.  Every adapter sorts its result by   *)
(* timestamp, newest first (vk_parser.py 298, reddit_parser.py 386,          *)
(* youtube_parser.py 375), and a sort of naive and aware datetimes together  *)
(* raises, so a batch is sorted and is all naive or all aware.               *)

Instant(ts) == IF ts.aware THEN ts.wall - ts.off ELSE ts.wall

IsSorted(b) == \A i \in 1..(Len(b) - 1) : Instant(b[i].timestamp) >= Instant(b[i + 1].timestamp)

SortedSeqs(S, n) == {b \in SeqsUpTo(S, n) : IsSorted(b)}

\* VK and Reddit build naive datetimes (vk_parser.py 233, reddit_parser.py 314)
NaiveItems ==
    {Comment(<<"a">>, <<"x">>, Naive(w), <<"u">>) : w \in {0, MaxTime}}
        \cup {Comment(<<"a">>, <<"y">>, Naive(MaxTime), <<"u">>)}

\* YouTube builds aware datetimes (youtube_parser.py 287-289); these are of a
\* zone one unit ahead of UTC: the instant is wall - 1
AwareItems == {Comment(<<"a">>, <<"z">>, Aware(w, 1), <<"u">>) : w \in {0, 1, MaxTime}}

\* n distinct comments, all written at MaxTime
BigBatch(n) == [i \in 1..n |-> Comment(<<"a">>, <<"c", ToString(i)>>, Naive(MaxTime), <<"u">>)]

RichFeed(s) ==
    IF s = "YouTube"
    THEN SortedSeqs(AwareItems, MaxBatch)
    ELSE SortedSeqs(NaiveItems, MaxBatch) \cup {BigBatch(BigNew), BigBatch(BigWindow)}

TinyItems == {Comment(<<"a">>, <<"x">>, Naive(MaxTime), <<"u">>)}

TinyFeed == SortedSeqs(TinyItems, 1)

\* the files a run of the monitor can have left behind: save_state writes
\* lists that save_last_comments has cut to 100 entries
StateFiles(names, lists) ==
    {NoFile} \cup
    {state_json(m, 0) : m \in UNION {[D -> lists] : D \in SUBSET names}}

----------------------------------------------------------------------------
(* The monitor: __init__, run, check_parsers, _check_single_parser *)

EmptyResult == [comments |-> <<>>, new_comments |-> <<>>, error |-> "none"]

Range(seq) == {seq[i] : i \in 1..Len(seq)}

\* no request under observation
NoRequest == [client |-> "none"]

\* YouTubeParser.__init__ (youtube_parser.py 172-173): nothing cached, and
\* get_comments not running.  username: channel_id does not start with UC;
\* videos: the get_video_comments tasks still running; quota, data: one of
\* them has raised YouTubeQuotaExceeded, has returned comments; quotaSeen:
\* a request of this call has met a 403 quotaExceeded; retried: a request
\* was sent again after it had met one; resolves: the calls of
\* get_uploads_playlist_id that went on to ask the API
YtIdle == [stage |-> "idle", username |-> FALSE,
           uploads_playlist_id |-> FALSE, playlist_id_loaded |-> FALSE,
           videos |-> 0, quota |-> FALSE, data |-> FALSE,
           quotaSeen |-> FALSE, retried |-> FALSE, resolves |-> 0]

\* TelegramSender before the tasks of a cycle make their calls; run() starts
\* no cycle unless setup_bot has set the bot (main.py 238, 765-768).  attempt, log: per task, the turn of the loop
\* of the send_comment or send_error call in progress and what its
\* send_message calls have met; alerting: the tasks inside send_error;
\* spent: per task, the time it has slept in its deliveries, in half
\* seconds; joined: the time after the start of the cycle at which gather
\* returned; most: the largest number of send_message calls made by one
\* call; afterOk: a call went on after a send_message call had returned;
\* dropped: the tasks one of whose calls has returned without a delivery
TgFor(P, bot) == [bot |-> bot,
                  attempt |-> [s \in P |-> 0],
                  log |-> [s \in P |-> <<>>],
                  alerting |-> {},
                  spent |-> [s \in P |-> 0],
                  joined |-> 0,
                  most |-> 0,
                  afterOk |-> FALSE,
                  dropped |-> {}]

TgIdle == TgFor({}, TRUE)

\* run() before its loop (main.py 758-781): the shutdown event is not set
RunIdle == [shutdown_event |-> FALSE, closed |-> {}, final_saves |-> 0,
            final_stats |-> 0, cold |-> FALSE, fetched |-> <<>>, sent |-> <<>>]

\* no call of an adapter's get_comments under observation; utcoffset: the
\* offset of the local time of the host from UTC
AdIdle == [adapter |-> "none", utcoffset |-> 0]

HarnessIdle ==
    /\ fArgs = [parser_name |-> "", current_comments |-> <<>>]
    /\ fPre = <<>>
    /\ fOut = <<>>
    /\ kPair = <<>>
    /\ kKeys = <<>>
    /\ rq = NoRequest
    /\ yt = YtIdle
    /\ tg = TgIdle
    /\ run = RunIdle
    /\ ad = AdIdle

\* subreddit.strip() (line 508) for the subreddit settings of the model
strip(subreddit) == IF subreddit = " " THEN "" ELSE subreddit

\* RedditParser.__init__: f"Reddit (r/{subreddit})" (reddit_parser.py 145)
reddit_source_name(subreddit) == "Reddit (r/" \o subreddit \o ")"

\* the tests of lines 489, 497 and 506-509: the source names of the parsers
\* put in the list
get_configured_parsers(C) ==
    (IF C.youtube.enabled /\ C.youtube.api_key # "" /\ C.youtube.channel_id # ""
     THEN {"YouTube"} ELSE {})
    \cup (IF C.vk.enabled /\ C.vk.access_token # "" /\ C.vk.group_id # ""
          THEN {"VK"} ELSE {})
    \cup (IF C.reddit.enabled /\ C.reddit.client_id # "" /\ C.reddit.client_secret # ""
          THEN {reddit_source_name(strip(sub)) :
                   sub \in {x \in Range(C.reddit.subreddits) : strip(x) # ""}}
          ELSE {})

\* is_configured() of the parser of source s, built from the settings of the
\* monitor (youtube_parser.py 175-177, vk_parser.py 153-155,
\* reddit_parser.py 155-157; the subreddit of a parser in the list is not
\* empty)
is_configured(s) ==
    CASE s = "YouTube" -> config.youtube.api_key # "" /\ config.youtube.channel_id # ""
      [] s = "VK" -> config.vk.access_token # "" /\ config.vk.group_id # ""
      [] OTHER -> /\ config.reddit.client_id # ""
                  /\ config.reddit.client_secret # ""
                  /\ config.reddit.user_agent # ""

\* settings under which exactly the parsers of P are enabled, all complete
ConfigFor(P) ==
    [youtube |-> [enabled |-> "YouTube" \in P, api_key |-> "k", channel_id |-> "UC"],
     vk |-> [enabled |-> "VK" \in P, access_token |-> "t", group_id |-> "g"],
     reddit |-> [enabled |-> "Reddit (r/python)" \in P, client_id |-> "i",
                 client_secret |-> "s", user_agent |-> "ua",
                 subreddits |-> <<"python">>]]

\* what get_comments of the parser of s may return: a parser that is not
\* configured returns an empty list at once (reddit_parser.py 330-332)
get_comments(s) == IF is_configured(s) THEN feed[s] ELSE {<<>>}

\* CommentMonitor.__init__ (lines 441-483) under the settings C, with the
\* feeds F and the state file D found at start, at a time of T
MonitorInit(C, F, D, T) ==
    /\ config = C
    /\ parsers = get_configured_parsers(C)
    /\ feed = F
    /\ disk = D
    /\ parser_start_time \in T
    /\ clock = parser_start_time
    /\ last_comments = load_state(D)
    /\ first_run = (DOMAIN load_state(D) = {})
    /\ total_checks = 0
    /\ total_errors = 0
    /\ parser_stats = [s \in parsers |-> [checks |-> 0, errors |-> 0]]
    /\ phase = "idle"
    /\ pc = [s \in parsers |-> "idle"]
    /\ result = [s \in parsers |-> EmptyResult]
    /\ pending = [s \in parsers |-> <<>>]
    /\ sink = [s \in parsers |-> <<>>]
    /\ sentBefore = [s \in parsers |-> {}]
    /\ alerts = [s \in parsers |-> 0]
    /\ saves = 0

\* run: `while not shutdown` -> check_parsers (lines 699-712): the tasks of
\* all parsers are created and run up to their await of get_comments
StartCycleMutDisable ==
    /\ phase = "idle"
    /\ total_checks < MaxCycles
    /\ parsers # {}
    /\ total_checks' = total_checks + 1
    /\ phase' = "cycling"
    /\ pc' = [s \in parsers |-> IF parser_stats[s].errors > 1 THEN "done" ELSE "fetch"]
    /\ result' = [s \in parsers |-> EmptyResult]
    /\ pending' = [s \in parsers |-> <<>>]
    /\ sink' = [s \in parsers |-> <<>>]
    /\ sentBefore' = [s \in parsers |-> sentBefore[s] \cup {Triple(c) : c \in Range(sink[s])}]
    /\ parser_stats' = [s \in parsers |->
                           IF parser_stats[s].errors > 1 THEN parser_stats[s]
                           ELSE [parser_stats[s] EXCEPT !.checks = @ + 1]]
    /\ alerts' = [s \in parsers |-> 0]
    /\ saves' = 0
    /\ UNCHANGED <<config, parsers, feed, disk, last_comments, first_run,
                   parser_start_time, total_errors, clock>>
StartCycleMutOverlap ==
    /\ total_checks < MaxCycles
    /\ parsers # {}
    /\ total_checks' = total_checks + 1
    /\ phase' = "cycling"
    /\ pc' = [s \in parsers |-> "fetch"]
    /\ result' = [s \in parsers |-> EmptyResult]
    /\ pending' = [s \in parsers |-> <<>>]
    /\ sink' = [s \in parsers |-> <<>>]
    /\ sentBefore' = [s \in parsers |-> sentBefore[s] \cup {Triple(c) : c \in Range(sink[s])}]
    /\ parser_stats' = [s \in parsers |-> [parser_stats[s] EXCEPT !.checks = @ + 1]]
    /\ alerts' = [s \in parsers |-> 0]
    /\ saves' = 0
    /\ UNCHANGED <<config, parsers, feed, disk, last_comments, first_run,
                   parser_start_time, total_errors, clock>>
StartCycle ==
    /\ phase = "idle"
    /\ total_checks < MaxCycles
    /\ parsers # {}
    /\ total_checks' = total_checks + 1
    /\ phase' = "cycling"
    /\ pc' = [s \in parsers |-> "fetch"]
    /\ result' = [s \in parsers |-> EmptyResult]
    /\ pending' = [s \in parsers |-> <<>>]
    /\ sink' = [s \in parsers |-> <<>>]
    /\ sentBefore' = [s \in parsers |-> sentBefore[s] \cup {Triple(c) : c \in Range(sink[s])}]
    /\ parser_stats' = [s \in parsers |-> [parser_stats[s] EXCEPT !.checks = @ + 1]]
    /\ alerts' = [s \in parsers |-> 0]
    /\ saves' = 0
    /\ UNCHANGED <<config, parsers, feed, disk, last_comments, first_run,
                   parser_start_time, total_errors, clock>>

\* check_parsers with no parser (lines 702-706), then lines 786-788 of run
EmptyCycle ==
    /\ phase = "idle"
    /\ total_checks < MaxCycles
    /\ parsers = {}
    /\ total_checks' = total_checks + 1
    /\ first_run' = FALSE
    /\ saves' = 0
    /\ UNCHANGED <<config, parsers, feed, disk, last_comments, parser_start_time,
                   total_errors, parser_stats, clock, phase, pc, result, pending,
                   sink, sentBefore, alerts>>

\* get_comments returns `comments` (lines 639-666, up to the first send)
FetchReturn(s, comments) ==
    /\ phase = "cycling"
    /\ pc[s] = "fetch"
    /\ IF comments # <<>>
       THEN LET new_comments == get_new_comments(s, comments) IN
            /\ result' = [result EXCEPT ![s] = [comments |-> comments,
                                                new_comments |-> new_comments,
                                                error |-> "none"]]
            /\ IF new_comments # <<>>
               THEN /\ pending' = [pending EXCEPT ![s] = limited_comments(new_comments)]
                    /\ pc' = [pc EXCEPT ![s] = "send"]
                    /\ UNCHANGED last_comments
               ELSE /\ last_comments' = save_last_comments(s, comments)
                    /\ pc' = [pc EXCEPT ![s] = "done"]
                    /\ UNCHANGED pending
       ELSE /\ last_comments' = save_last_comments(s, <<>>)
            /\ pc' = [pc EXCEPT ![s] = "done"]
            /\ UNCHANGED <<result, pending>>
    /\ UNCHANGED <<config, parsers, feed, disk, first_run, parser_start_time,
                   total_checks, total_errors, parser_stats, clock, phase, sink,
                   sentBefore, alerts, saves>>

\* one turn of the loop of lines 654-656, and after its last turn line 663
SendCommentMutSaves(s) ==
    /\ phase = "cycling"
    /\ pc[s] = "send"
    /\ sink' = [sink EXCEPT ![s] = Append(@, Head(pending[s]))]
    /\ pending' = [pending EXCEPT ![s] = Tail(@)]
    /\ IF Tail(pending[s]) = <<>>
       THEN /\ last_comments' = save_last_comments(s, result[s].comments)
            /\ pc' = [pc EXCEPT ![s] = "done"]
            /\ disk' = state_json(save_last_comments(s, result[s].comments), parser_start_time)
            /\ saves' = saves + 1
       ELSE UNCHANGED <<last_comments, pc, disk, saves>>
    /\ UNCHANGED <<config, parsers, feed, first_run, parser_start_time,
                   total_checks, total_errors, parser_stats, clock, phase, result,
                   sentBefore, alerts>>
SendComment(s) ==
    /\ phase = "cycling"
    /\ pc[s] = "send"
    /\ sink' = [sink EXCEPT ![s] = Append(@, Head(pending[s]))]
    /\ pending' = [pending EXCEPT ![s] = Tail(@)]
    /\ IF Tail(pending[s]) = <<>>
       THEN /\ last_comments' = save_last_comments(s, result[s].comments)
            /\ pc' = [pc EXCEPT ![s] = "done"]
       ELSE UNCHANGED <<last_comments, pc>>
    /\ UNCHANGED <<config, parsers, feed, disk, first_run, parser_start_time,
                   total_checks, total_errors, parser_stats, clock, phase, result,
                   sentBefore, alerts, saves>>

\* the exceptions get_comments can end in: any parser's with an ordinary
\* exception, YouTube's also with YouTubeQuotaExceeded; a parser that is not
\* configured returns before anything can raise
Failures(s) ==
    IF ~is_configured(s) THEN {}
    ELSE {"error"} \cup (IF s = "YouTube" THEN {"quota"} ELSE {})

\* get_comments raises (lines 668-695): the error is counted and send_error
\* is called once, for either kind of exception
FetchRaiseMutWipe(s, kind) ==
    /\ phase = "cycling"
    /\ pc[s] = "fetch"
    /\ kind \in Failures(s)
    /\ result' = [result EXCEPT ![s].error = kind]
    /\ pc' = [x \in parsers |-> IF pc[x] = "fetch" THEN "failed" ELSE pc[x]]
    /\ total_errors' = total_errors + 1
    /\ parser_stats' = [parser_stats EXCEPT ![s].errors = @ + 1]
    /\ alerts' = [alerts EXCEPT ![s] = @ + 1]
    /\ UNCHANGED <<config, parsers, feed, disk, last_comments, first_run,
                   parser_start_time, total_checks, clock, phase, pending, sink,
                   sentBefore, saves>>
FetchRaiseMutClears(s, kind) ==
    /\ phase = "cycling"
    /\ pc[s] = "fetch"
    /\ kind \in Failures(s)
    /\ result' = [result EXCEPT ![s].error = kind]
    /\ pc' = [pc EXCEPT ![s] = "failed"]
    /\ total_errors' = total_errors + 1
    /\ parser_stats' = [parser_stats EXCEPT ![s].errors = @ + 1]
    /\ alerts' = [alerts EXCEPT ![s] = @ + 1]
    /\ last_comments' = save_last_comments(s, <<>>)
    /\ UNCHANGED <<config, parsers, feed, disk, first_run,
                   parser_start_time, total_checks, clock, phase, pending, sink,
                   sentBefore, saves>>
FetchRaise(s, kind) ==
    /\ phase = "cycling"
    /\ pc[s] = "fetch"
    /\ kind \in Failures(s)
    /\ result' = [result EXCEPT ![s].error = kind]
    /\ pc' = [pc EXCEPT ![s] = "failed"]
    /\ total_errors' = total_errors + 1
    /\ parser_stats' = [parser_stats EXCEPT ![s].errors = @ + 1]
    /\ alerts' = [alerts EXCEPT ![s] = @ + 1]
    /\ UNCHANGED <<config, parsers, feed, disk, last_comments, first_run,
                   parser_start_time, total_checks, clock, phase, pending, sink,
                   sentBefore, saves>>

\* gather has returned: save_state (line 737), which ends with `outcome`,
\* then lines 786-788 of run
EndCycle(outcome) ==
    /\ phase = "cycling"
    /\ \A s \in parsers : pc[s] \in {"done", "failed"}
    /\ disk' = write_state_file(outcome)
    /\ saves' = saves + 1
    /\ first_run' = FALSE
    /\ phase' = "idle"
    /\ pc' = [s \in parsers |-> "idle"]
    /\ UNCHANGED <<config, parsers, feed, last_comments, parser_start_time,
                   total_checks, total_errors, parser_stats, clock, result, pending,
                   sink, sentBefore, alerts>>

Next ==
    \/ StartCycle /\ UNCHANGED <<filterVars, keyVars, clientVars>>
    \/ EmptyCycle /\ UNCHANGED <<filterVars, keyVars, clientVars>>
    \/ \E s \in parsers : \E comments \in get_comments(s) :
          FetchReturn(s, comments) /\ UNCHANGED <<filterVars, keyVars, clientVars>>
    \/ \E s \in parsers : \E kind \in {"error", "quota"} :
          FetchRaise(s, kind) /\ UNCHANGED <<filterVars, keyVars, clientVars>>
    \/ \E s \in parsers : SendComment(s) /\ UNCHANGED <<filterVars, keyVars, clientVars>>
    \/ \E outcome \in {"written"} : EndCycle(outcome) /\ UNCHANGED <<filterVars, keyVars, clientVars>>

\* three sources polled concurrently, small feeds
Init ==
    /\ HarnessIdle
    /\ \E P \in {SourceNames, {}} :
         \E D \in StateFiles(P, {<<>>, <<Comment(<<"a">>, <<"x">>, Naive(MaxTime), <<"u">>)>>}) :
            MonitorInit(ConfigFor(P), [s \in P |-> TinyFeed], D, {MaxTime})

Spec == Init /\ [][Next]_vars

\* one source, the full feed
InitOne ==
    /\ HarnessIdle
    /\ \E s \in {"YouTube", "VK"} :
         \E D \in StateFiles({s}, SortedSeqs(IF s = "YouTube" THEN AwareItems ELSE NaiveItems, 1)
                                   \cup (IF s = "YouTube" THEN {}
                                         ELSE {BigBatch(100)})) :
            MonitorInit(ConfigFor({s}), [x \in {s} |-> RichFeed(s)], D, Times)

NextOne ==
    \/ StartCycle /\ UNCHANGED <<filterVars, keyVars, clientVars>>
    \/ \E s \in parsers : \E comments \in get_comments(s) :
          FetchReturn(s, comments) /\ UNCHANGED <<filterVars, keyVars, clientVars>>
    \/ \E s \in parsers : \E kind \in {"error", "quota"} :
          FetchRaise(s, kind) /\ UNCHANGED <<filterVars, keyVars, clientVars>>
    \/ \E s \in parsers : SendComment(s) /\ UNCHANGED <<filterVars, keyVars, clientVars>>
    \/ \E outcome \in {"written"} : EndCycle(outcome) /\ UNCHANGED <<filterVars, keyVars, clientVars>>

SpecOne == InitOne /\ [][NextOne]_vars

----------------------------------------------------------------------------
(* The state file over the life of several processes: a cycle's save may     *)
(* fail, the process may be stopped or killed, and a new process is built    *)
(* on the file the last one left.                                            *)

\* time passes
Tick ==
    /\ clock < MaxTime
    /\ clock' = clock + 1
    /\ UNCHANGED <<config, parsers, feed, disk, last_comments, first_run,
                   parser_start_time, total_checks, total_errors, parser_stats,
                   phase, pc, result, pending, sink, sentBefore, alerts, saves>>

\* the shutdown event is set between two cycles: the finally clause of run
\* (lines 810-823) saves the state, and asyncio.run returns
Shutdown(outcome) ==
    /\ phase = "idle"
    /\ disk' = write_state_file(outcome)
    /\ saves' = saves + 1
    /\ phase' = "down"
    /\ UNCHANGED <<config, parsers, feed, last_comments, first_run, parser_start_time,
                   total_checks, total_errors, parser_stats, clock, pc, result,
                   pending, sink, sentBefore, alerts>>

\* the process is killed inside save_state (the call of line 737 or of line
\* 821), after open(..., 'w') of line 887 and before json.dump has finished
KillInSave ==
    /\ \/ phase = "idle"
       \/ phase = "cycling" /\ \A s \in parsers : pc[s] \in {"done", "failed"}
    /\ disk' = Partial
    /\ phase' = "down"
    /\ pc' = [s \in parsers |-> "idle"]
    /\ UNCHANGED <<config, parsers, feed, last_comments, first_run, parser_start_time,
                   total_checks, total_errors, parser_stats, clock, result,
                   pending, sink, sentBefore, alerts, saves>>

\* a new process: CommentMonitor.__init__ (lines 441-483) on the file the
\* last process left
ConstructMutRehydrate ==
    /\ phase = "down"
    /\ parser_start_time' =
          IF disk.exists /\ disk.complete
          THEN fromisoformat(disk.parser_start_time).wall
          ELSE clock
    /\ last_comments' = load_state(disk)
    /\ first_run' = (DOMAIN load_state(disk) = {})
    /\ total_checks' = 0
    /\ total_errors' = 0
    /\ parser_stats' = [s \in parsers |-> [checks |-> 0, errors |-> 0]]
    /\ phase' = "idle"
    /\ pc' = [s \in parsers |-> "idle"]
    /\ result' = [s \in parsers |-> EmptyResult]
    /\ pending' = [s \in parsers |-> <<>>]
    /\ sink' = [s \in parsers |-> <<>>]
    /\ sentBefore' = [s \in parsers |-> sentBefore[s] \cup {Triple(c) : c \in Range(sink[s])}]
    /\ alerts' = [s \in parsers |-> 0]
    /\ saves' = 0
    /\ UNCHANGED <<config, parsers, feed, disk, clock>>
Construct ==
    /\ phase = "down"
    /\ parser_start_time' = clock
    /\ last_comments' = load_state(disk)
    /\ first_run' = (DOMAIN load_state(disk) = {})
    /\ total_checks' = 0
    /\ total_errors' = 0
    /\ parser_stats' = [s \in parsers |-> [checks |-> 0, errors |-> 0]]
    /\ phase' = "idle"
    /\ pc' = [s \in parsers |-> "idle"]
    /\ result' = [s \in parsers |-> EmptyResult]
    /\ pending' = [s \in parsers |-> <<>>]
    /\ sink' = [s \in parsers |-> <<>>]
    /\ sentBefore' = [s \in parsers |-> sentBefore[s] \cup {Triple(c) : c \in Range(sink[s])}]
    /\ alerts' = [s \in parsers |-> 0]
    /\ saves' = 0
    /\ UNCHANGED <<config, parsers, feed, disk, clock>>

\* a dict without one of its keys
Without(comment_data, key) == [k \in DOMAIN comment_data \ {key} |-> comment_data[k]]

\* the dicts of comments found in a state file: as save_state writes them,
\* as a version that did not write the text or the timestamp left them, and
\* as a version that writes one more key leaves them
StoreItems ==
    LET full == comment_json("VK", Comment(<<"a">>, <<"x">>, Naive(MaxTime), <<"u">>))
    IN  {full, Without(full, "text"), Without(full, "timestamp"),
         full @@ ("likes" :> <<"1">>)}

StoreFiles ==
    {NoFile} \cup
    {[exists |-> TRUE, complete |-> TRUE,
      last_comments |-> [s \in {"VK"} |-> list],
      parser_start_time |-> isoformat(Naive(0))] : list \in SeqsUpTo(StoreItems, MaxBatch)}

InitStore ==
    /\ HarnessIdle
    /\ \E D \in StoreFiles :
          MonitorInit(ConfigFor({"VK"}), [s \in {"VK"} |-> TinyFeed], D, Times)

NextStore ==
    \/ StartCycle /\ UNCHANGED <<filterVars, keyVars, clientVars>>
    \/ \E s \in parsers : \E comments \in get_comments(s) :
          FetchReturn(s, comments) /\ UNCHANGED <<filterVars, keyVars, clientVars>>
    \/ \E s \in parsers : \E kind \in {"error", "quota"} :
          FetchRaise(s, kind) /\ UNCHANGED <<filterVars, keyVars, clientVars>>
    \/ \E s \in parsers : SendComment(s) /\ UNCHANGED <<filterVars, keyVars, clientVars>>
    \/ \E outcome \in WriteOutcomes : EndCycle(outcome) /\ UNCHANGED <<filterVars, keyVars, clientVars>>
    \/ \E outcome \in WriteOutcomes : Shutdown(outcome) /\ UNCHANGED <<filterVars, keyVars, clientVars>>
    \/ KillInSave /\ UNCHANGED <<filterVars, keyVars, clientVars>>
    \/ Construct /\ UNCHANGED <<filterVars, keyVars, clientVars>>
    \/ Tick /\ UNCHANGED <<filterVars, keyVars, clientVars>>

SpecStore == InitStore /\ [][NextStore]_vars

\* the lists a process can hold for its sources when it is stopped: aware
\* timestamps for YouTube, naive ones for VK, fields with the separator of
\* the key
RestartLists ==
    [{"YouTube"} -> SortedSeqs(AwareItems, MaxBatch)]
        \cup [{"VK"} -> SortedSeqs(NaiveItems, MaxBatch)]
        \cup {[s \in {"YouTube", "VK"} |->
                  IF s = "YouTube" THEN y
                  ELSE <<Comment(<<"a", "_", "b">>, <<"c">>, Naive(w), <<"u">>),
                         Comment(<<"a">>, <<"b", "_", "c">>, Naive(0), <<"u">>)>>] :
                y \in SortedSeqs(AwareItems, MaxBatch), w \in {0, MaxTime}}

\* processes stopped and built again, each on the file the last one left
InitRestart ==
    /\ HarnessIdle
    /\ \E m \in RestartLists :
          MonitorInit(ConfigFor({"YouTube", "VK"}),
                      [s \in {"YouTube", "VK"} |-> TinyFeed], state_json(m, 0), Times)

NextRestart ==
    \/ \E outcome \in WriteOutcomes : Shutdown(outcome) /\ UNCHANGED <<filterVars, keyVars, clientVars>>
    \/ KillInSave /\ UNCHANGED <<filterVars, keyVars, clientVars>>
    \/ Construct /\ UNCHANGED <<filterVars, keyVars, clientVars>>
    \/ Tick /\ UNCHANGED <<filterVars, keyVars, clientVars>>

SpecRestart == InitRestart /\ [][NextRestart]_vars

----------------------------------------------------------------------------
(* The parser list under incomplete settings: the monitor is built under    *)
(* settings in which one network is disabled or one setting is left empty    *)
(* (CONFIG_DATA.get(key, '') of lines 115-125 gives '' for a key that is     *)
(* not set).                                                                 *)

Settings ==
    {<<"youtube", "api_key">>, <<"youtube", "channel_id">>,
     <<"vk", "access_token">>, <<"vk", "group_id">>,
     <<"reddit", "client_id">>, <<"reddit", "client_secret">>,
     <<"reddit", "user_agent">>}

Configs ==
    {ConfigFor(SourceNames)}
        \cup {[ConfigFor(SourceNames) EXCEPT ![k[1]][k[2]] = ""] : k \in Settings}
        \cup {[ConfigFor(SourceNames) EXCEPT ![n].enabled = FALSE] : n \in {"youtube", "vk", "reddit"}}
        \cup {[ConfigFor(SourceNames) EXCEPT !.reddit.subreddits = <<" ">>]}

InitConfig ==
    /\ HarnessIdle
    /\ \E C \in Configs :
          MonitorInit(C, [s \in get_configured_parsers(C) |-> TinyFeed], NoFile, {MaxTime})

NextConfig ==
    \/ StartCycle /\ UNCHANGED <<filterVars, keyVars, clientVars>>
    \/ \E s \in parsers : \E comments \in get_comments(s) :
          FetchReturn(s, comments) /\ UNCHANGED <<filterVars, keyVars, clientVars>>
    \/ \E s \in parsers : \E kind \in {"error", "quota"} :
          FetchRaise(s, kind) /\ UNCHANGED <<filterVars, keyVars, clientVars>>
    \/ \E s \in parsers : SendComment(s) /\ UNCHANGED <<filterVars, keyVars, clientVars>>
    \/ \E outcome \in {"written"} : EndCycle(outcome) /\ UNCHANGED <<filterVars, keyVars, clientVars>>

SpecConfig == InitConfig /\ [][NextConfig]_vars

----------------------------------------------------------------------------
(* get_new_comments alone: the monitor is in any state it can be in when    *)
(* the function is called, and the function is called twice on one batch    *)

MonitorIdle ==
    /\ config = ConfigFor({})
    /\ parsers = {}
    /\ feed = <<>>
    /\ disk = NoFile
    /\ total_checks = 0
    /\ total_errors = 0
    /\ parser_stats = <<>>
    /\ clock = 0
    /\ alerts = <<>>
    /\ saves = 0
    /\ phase = "idle"
    /\ pc = <<>>
    /\ result = <<>>
    /\ pending = <<>>
    /\ sink = <<>>
    /\ sentBefore = <<>>

\* comments whose fields hold the separator of the key, comments of both
\* kinds of datetime, before and after the start
FilterItems ==
    {Comment(<<"a">>, <<"x">>, Naive(w), <<"u">>) : w \in Times}
        \cup {Comment(<<"a">>, <<"z">>, Aware(MaxTime, 1), <<"u">>),
              Comment(<<"a", "_", "b">>, <<"c">>, Naive(MaxTime), <<"u">>),
              Comment(<<"a">>, <<"b", "_", "c">>, Naive(MaxTime), <<"u">>)}

InitFilter ==
    /\ MonitorIdle
    /\ kPair = <<>>
    /\ kKeys = <<>>
    /\ rq = NoRequest
    /\ yt = YtIdle
    /\ tg = TgIdle
    /\ run = RunIdle
    /\ ad = AdIdle
    /\ parser_start_time \in Times
    /\ first_run \in BOOLEAN
    /\ last_comments \in UNION {[D -> SeqsUpTo(FilterItems, 1)] : D \in SUBSET {"VK", "YouTube"}}
    /\ fArgs \in [parser_name : {"VK"}, current_comments : SeqsUpTo(FilterItems, MaxBatch)]
    /\ fPre = <<last_comments, first_run, parser_start_time>>
    /\ fOut = <<>>

\* a call of get_new_comments (lines 527-593): it returns a value and assigns
\* no attribute of the monitor
FilterCallMutRemember ==
    /\ Len(fOut) < 2
    /\ fOut' = Append(fOut, get_new_comments(fArgs.parser_name, fArgs.current_comments))
    /\ last_comments' =
          IF fArgs.parser_name \in DOMAIN last_comments
          THEN [last_comments EXCEPT ![fArgs.parser_name] =
                    @ \o get_new_comments(fArgs.parser_name, fArgs.current_comments)]
          ELSE last_comments
    /\ UNCHANGED <<config, parsers, feed, disk, first_run, parser_start_time,
                   total_checks, total_errors, parser_stats, clock, phase, pc, result,
                   pending, sink, sentBefore, alerts, saves, fArgs, fPre, keyVars,
                   clientVars>>
FilterCall ==
    /\ Len(fOut) < 2
    /\ fOut' = Append(fOut, get_new_comments(fArgs.parser_name, fArgs.current_comments))
    /\ UNCHANGED <<monitorVars, fArgs, fPre, keyVars, clientVars>>

NextFilter == FilterCall

SpecFilter == InitFilter /\ [][NextFilter]_vars

\* timestamps that are no datetime: None, a string
Malformed == {[value |-> "None"], [value |-> "str"]}

\* candidates with a timestamp before the start, after the start, and none
MalformedItems ==
    {Comment(<<"a">>, <<"x">>, Naive(w), <<"u">>) : w \in {0, MaxTime}}
        \cup {Comment(<<"a">>, <<"y">>, Naive(MaxTime), <<"u">>)}
        \cup {Comment(<<"a">>, <<"m">>, ts, <<"u">>) : ts \in Malformed}

\* get_new_comments called on batches that hold malformed candidates
InitMalformed ==
    /\ MonitorIdle
    /\ kPair = <<>>
    /\ kKeys = <<>>
    /\ rq = NoRequest
    /\ yt = YtIdle
    /\ tg = TgIdle
    /\ run = RunIdle
    /\ ad = AdIdle
    /\ parser_start_time \in Times
    /\ first_run \in BOOLEAN
    /\ last_comments \in UNION {[D -> SeqsUpTo(FilterItems, 1)] : D \in SUBSET {"VK"}}
    /\ fArgs \in [parser_name : {"VK"},
                  current_comments : SeqsUpTo(MalformedItems, MaxBatch + 1)]
    /\ fPre = <<last_comments, first_run, parser_start_time>>
    /\ fOut = <<>>

SpecMalformed == InitMalformed /\ [][NextFilter]_vars

----------------------------------------------------------------------------
(* the dedup key alone: the keys of two comments *)

KeyStrings == {<<"a">>, <<"b">>, <<"a", "_", "b">>}

KeyItems == {Comment(a, t, Naive(w), u) :
                a \in KeyStrings, t \in KeyStrings, u \in KeyStrings, w \in {0, MaxTime}}

InitKey ==
    /\ MonitorIdle
    /\ last_comments = << >>
    /\ first_run = TRUE
    /\ parser_start_time = 0
    /\ fArgs = [parser_name |-> "", current_comments |-> <<>>]
    /\ fPre = <<>>
    /\ fOut = <<>>
    /\ kPair \in KeyItems \X KeyItems
    /\ kKeys = <<>>
    /\ rq = NoRequest
    /\ yt = YtIdle
    /\ tg = TgIdle
    /\ run = RunIdle
    /\ ad = AdIdle

\* the key of lines 577 and 585 computed for both comments
KeyCall ==
    /\ kKeys = <<>>
    /\ kKeys' = <<Key(kPair[1]), Key(kPair[2])>>
    /\ UNCHANGED <<monitorVars, filterVars, kPair, clientVars>>

NextKey == KeyCall

SpecKey == InitKey /\ [][NextKey]_vars

----------------------------------------------------------------------------
(* The deliveries to Telegram inside the tasks of a cycle: send_comment and  *)
(* send_error call by call of bot.send_message.  The calls themselves take   *)
(* no time here; the sleeps of the sender do.                                *)

\* max_retries: int = 3 of send_comment and send_error (main.py 246, 358)
send_retries == 3

\* what a call of bot.send_message ends in: it returns, it raises
\* asyncio.TimeoutError, it raises another exception
SendOutcomes == {"ok", "timeout", "error"}

\* the sleep of send_comment after a send_message call that ended in
\* outcome in turn `attempt` of the loop (main.py 283, 286-295, 297-308),
\* in half seconds
comment_wait(outcome, attempt) ==
    CASE outcome = "ok" -> 1
      [] outcome = "timeout" -> IF attempt < send_retries - 1 THEN (attempt + 1) * 4 ELSE 2
      [] OTHER -> IF attempt < send_retries - 1 THEN (attempt + 1) * 3 ELSE 2

\* the sleep of send_error (main.py 399-419), in half seconds
error_wait(outcome, attempt) ==
    CASE outcome = "ok" -> 0
      [] outcome = "timeout" -> IF attempt < send_retries - 1 THEN (attempt + 1) * 4 ELSE 0
      [] OTHER -> IF attempt < send_retries - 1 THEN (attempt + 1) * 3 ELSE 0

\* tg after the send_message call of task s of a call of the given kind has
\* ended in outcome; returns: the call of send_comment or send_error returns
Delivered(s, kind, outcome, wait, returns) ==
    [tg EXCEPT !.spent[s] = @ + wait,
               !.attempt[s] = IF returns THEN 0 ELSE @ + 1,
               !.log[s] = IF returns THEN <<>> ELSE Append(@, outcome),
               !.alerting = IF returns THEN @ \ {s} ELSE @,
               !.most = IF Len(tg.log[s]) + 1 > @ THEN Len(tg.log[s]) + 1 ELSE @,
               !.afterOk = @ \/ \E i \in 1..Len(tg.log[s]) : tg.log[s][i] = "ok",
               !.dropped = IF returns /\ outcome # "ok" /\ kind = "comment"
                           THEN @ \cup {s} ELSE @]

\* one send_message call of send_comment (main.py 267-308) for the comment
\* task s is sending; when send_comment returns, the task goes on (lines
\* 655-663)
DeliverCommentMutOneMore(s, outcome) ==
    /\ phase = "cycling"
    /\ pc[s] = "send"
    /\ tg.bot
    /\ LET returns == outcome = "ok" \/ tg.attempt[s] >= send_retries IN
       /\ tg' = Delivered(s, "comment", outcome, comment_wait(outcome, tg.attempt[s]), returns)
       /\ IF returns THEN SendComment(s) ELSE UNCHANGED monitorVars
    /\ UNCHANGED <<filterVars, keyVars, rq, yt, run, ad>>
DeliverComment(s, outcome) ==
    /\ phase = "cycling"
    /\ pc[s] = "send"
    /\ tg.bot
    /\ LET returns == outcome = "ok" \/ tg.attempt[s] >= send_retries - 1 IN
       /\ tg' = Delivered(s, "comment", outcome, comment_wait(outcome, tg.attempt[s]), returns)
       /\ IF returns THEN SendComment(s) ELSE UNCHANGED monitorVars
    /\ UNCHANGED <<filterVars, keyVars, rq, yt, run, ad>>

\* get_comments raises, and the except clause calls send_error (main.py
\* 668-695)
RaiseAlert(s, kind) ==
    /\ FetchRaise(s, kind)
    /\ tg' = IF tg.bot THEN [tg EXCEPT !.alerting = @ \cup {s}] ELSE tg
    /\ UNCHANGED <<filterVars, keyVars, rq, yt, run, ad>>

\* one send_message call of send_error (main.py 375-419)
DeliverError(s, outcome) ==
    /\ phase = "cycling"
    /\ s \in tg.alerting
    /\ LET returns == outcome = "ok" \/ tg.attempt[s] >= send_retries - 1 IN
       tg' = Delivered(s, "error", outcome, error_wait(outcome, tg.attempt[s]), returns)
    /\ UNCHANGED <<monitorVars, filterVars, keyVars, rq, yt, run, ad>>

\* the largest of the values of f
MaxOf(f) == CHOOSE m \in {f[x] : x \in DOMAIN f} : \A x \in DOMAIN f : f[x] <= m

\* the tasks are created (main.py 709-712)
SendStartCycle ==
    /\ StartCycle
    /\ tg' = TgFor(parsers, tg.bot)
    /\ UNCHANGED <<filterVars, keyVars, rq, yt, run, ad>>

\* every task has returned, send_error calls included: gather returns and
\* the state is saved (main.py 712-737)
SendEndCycle(outcome) ==
    /\ tg.alerting = {}
    /\ EndCycle(outcome)
    /\ tg' = [tg EXCEPT !.joined = MaxOf(tg.spent),
                        !.spent = [s \in parsers |-> 0]]
    /\ UNCHANGED <<filterVars, keyVars, rq, yt, run, ad>>

\* nothing, one comment, two comments
SendFeed ==
    {<<>>,
     <<Comment(<<"a">>, <<"x">>, Naive(MaxTime), <<"u">>)>>,
     <<Comment(<<"a">>, <<"y">>, Naive(MaxTime), <<"u">>),
       Comment(<<"a">>, <<"x">>, Naive(MaxTime), <<"u">>)>>}

InitSend ==
    /\ fArgs = [parser_name |-> "", current_comments |-> <<>>]
    /\ fPre = <<>>
    /\ fOut = <<>>
    /\ kPair = <<>>
    /\ kKeys = <<>>
    /\ rq = NoRequest
    /\ yt = YtIdle
    /\ run = RunIdle
    /\ ad = AdIdle
    /\ \E D \in StateFiles({"VK"}, {<<>>}) :
          MonitorInit(ConfigFor({"YouTube", "VK"}),
                      [s \in {"YouTube", "VK"} |->
                          IF s = "VK" THEN SendFeed ELSE {<<>>}],
                      D, {0})
    /\ tg = TgFor({"YouTube", "VK"}, TRUE)

NextSend ==
    \/ SendStartCycle
    \/ \E s \in parsers : \E comments \in get_comments(s) :
          FetchReturn(s, comments) /\ UNCHANGED <<filterVars, keyVars, clientVars>>
    \/ RaiseAlert("YouTube", "quota")
    \/ \E s \in parsers : \E outcome \in SendOutcomes : DeliverComment(s, outcome)
    \/ \E s \in parsers : \E outcome \in SendOutcomes : DeliverError(s, outcome)
    \/ \E outcome \in {"written"} : SendEndCycle(outcome)

SpecSend == InitSend /\ [][NextSend]_vars

----------------------------------------------------------------------------
(* run() with its shutdown event, for one source; the batches fetched and    *)
(* the comments sent are recorded cycle by cycle.                            *)

\* the signal handler of line 778 sets the event, between two cycles or
\* inside one
RunSignal ==
    /\ phase \in {"idle", "cycling"}
    /\ ~run.shutdown_event
    /\ run' = [run EXCEPT !.shutdown_event = TRUE]
    /\ UNCHANGED <<monitorVars, filterVars, keyVars, rq, yt, tg, ad>>

\* `while not self.shutdown_event.is_set()` (line 783), after the wait of
\* lines 793-797 has timed out, then check_parsers
RunStartCycleMutDeaf ==
    /\ StartCycle
    /\ UNCHANGED <<filterVars, keyVars, rq, yt, tg, run, ad>>
RunStartCycle ==
    /\ ~run.shutdown_event
    /\ StartCycle
    /\ UNCHANGED <<filterVars, keyVars, rq, yt, tg, run, ad>>

\* get_comments of s returns
RunFetchReturnMutForget(s, comments) ==
    /\ FetchReturn(s, IF first_run THEN <<>> ELSE comments)
    /\ run' = [run EXCEPT !.fetched = Append(@, comments)]
    /\ UNCHANGED <<filterVars, keyVars, rq, yt, tg, ad>>
RunFetchReturn(s, comments) ==
    /\ FetchReturn(s, comments)
    /\ run' = [run EXCEPT !.fetched = Append(@, comments)]
    /\ UNCHANGED <<filterVars, keyVars, rq, yt, tg, ad>>

\* the cycle of the one source s ends
RunEndCycle(s, outcome) ==
    /\ EndCycle(outcome)
    /\ run' = [run EXCEPT !.sent = Append(@, sink[s])]
    /\ UNCHANGED <<filterVars, keyVars, rq, yt, tg, ad>>

\* the event is found set, by the wait of lines 793-799 or by the test of
\* line 783: the loop is left and the finally clause (lines 810-823) closes
\* the session of every parser, saves the state and prints the statistics
RunExit(outcome) ==
    /\ run.shutdown_event
    /\ Shutdown(outcome)
    /\ run' = [run EXCEPT !.closed = parsers,
                          !.final_saves = @ + 1,
                          !.final_stats = @ + 1]
    /\ UNCHANGED <<filterVars, keyVars, rq, yt, tg, ad>>

InitRun ==
    /\ fArgs = [parser_name |-> "", current_comments |-> <<>>]
    /\ fPre = <<>>
    /\ fOut = <<>>
    /\ kPair = <<>>
    /\ kKeys = <<>>
    /\ rq = NoRequest
    /\ yt = YtIdle
    /\ tg = TgIdle
    /\ ad = AdIdle
    /\ \E D \in StateFiles({"VK"}, {<<>>}) :
          /\ MonitorInit(ConfigFor({"VK"}), [s \in {"VK"} |-> SortedSeqs(NaiveItems, 1)],
                         D, Times)
          /\ run = [RunIdle EXCEPT !.cold = (D = NoFile)]

NextRun ==
    \/ RunSignal
    \/ RunStartCycle
    \/ \E comments \in get_comments("VK") : RunFetchReturn("VK", comments)
    \/ SendComment("VK") /\ UNCHANGED <<filterVars, keyVars, clientVars>>
    \/ \E outcome \in {"written"} : RunEndCycle("VK", outcome)
    \/ \E outcome \in {"written"} : RunExit(outcome)

\* the event loop runs the task of run() whenever it can go on, and the
\* process is sent the signal in the end
SpecRun == InitRun /\ [][NextRun]_vars /\ WF_vars(NextRun)

----------------------------------------------------------------------------
(* The fetch clients.  One logical request meets a response at each HTTP     *)
(* request it issues: a status (200 with a body that parses or not, 403      *)
(* with the reason quotaExceeded or another, ...), a timeout, or another     *)
(* exception of the connection.                                              *)

\* max_retries: int = 3 (vk_parser.py 76, youtube_parser.py 74,
\* reddit_parser.py 198); no caller passes another value
max_retries == 3

\* aiohttp.ClientTimeout(total=45) of make_api_request (reddit_parser.py 221)
request_timeout == 45

\* the margin of get_access_token (reddit_parser.py 188)
token_margin == 60

\* token_data.get('expires_in', 3600) (reddit_parser.py 186)
expires_in == 3600

\* asyncio.sleep(wait) in the turn `attempt` of the loop of a client, after
\* its request met r
Slept(r, attempt, wait) == [after |-> r, attempt |-> attempt, wait |-> wait]

Kinds == {"200", "200badjson", "401", "403", "403quota", "404", "429", "500", "503",
          "timeout", "connerr"}

\* make_request_with_retry of vk_parser.py (lines 72-126) and of
\* youtube_parser.py (lines 70-149) from the turn `attempt` of its loop on,
\* responses[i] being what the i-th HTTP request meets: the value returned
\* ("data", "none" for None, "quota" for a raised YouTubeQuotaExceeded),
\* the number of HTTP requests issued, and the sleeps made
RECURSIVE attempt_from(_, _, _)
attempt_from(client, responses, attempt) ==
    IF attempt >= max_retries
    THEN [result |-> "none", requests |-> attempt, waits |-> <<>>]
    ELSE LET r == responses[attempt + 1]
             \* wait_time = 2 ** attempt; await asyncio.sleep(wait_time); continue
             slept == [attempt_from(client, responses, attempt + 1) EXCEPT
                          !.waits = <<Slept(r, attempt, 2 ^ attempt)>> \o @]
         IN
         CASE r = "200" -> [result |-> "data", requests |-> attempt + 1, waits |-> <<>>]
           [] r = "403quota" /\ client = "youtube" ->
                [result |-> "quota", requests |-> attempt + 1, waits |-> <<>>]
           [] r \in {"200badjson", "timeout", "connerr"} ->
                IF attempt < max_retries - 1
                THEN slept
                ELSE [result |-> "none", requests |-> attempt + 1, waits |-> <<>>]
           [] r \in {"429", "500", "503"} ->
                IF attempt < max_retries - 1
                THEN slept
                ELSE attempt_from(client, responses, attempt + 1)
           [] OTHER -> [result |-> "none", requests |-> attempt + 1, waits |-> <<>>]

make_request_with_retry(client, responses) == attempt_from(client, responses, 0)

\* a request of the VK or the YouTube parser is made and returns
RequestCall ==
    /\ rq.client \in {"vk", "youtube"}
    /\ ~rq.done
    /\ LET out == make_request_with_retry(rq.client, rq.responses)
       IN  rq' = [rq EXCEPT !.done = TRUE,
                            !.result = out.result,
                            !.requests = out.requests,
                            !.waits = out.waits,
                            !.received = SubSeq(rq.responses, 1, out.requests)]
    /\ UNCHANGED <<monitorVars, filterVars, keyVars, yt, tg, run, ad>>

\* self.access_token = None
NoToken == [set |-> FALSE, expires |-> 0]

\* session.get(url, headers=headers, ...) of make_api_request: a request is
\* sent with the token of the headers, at the time of q
SendGet(q) ==
    [q EXCEPT !.requests = @ + 1,
              !.sent = Append(@, [at |-> q.t, expires |-> q.hdr.expires])]

\* make_api_request returns res
Finish(q, res) == [q EXCEPT !.done = TRUE, !.result = res, !.pc = "done"]

\* the turn of the loop of make_api_request (reddit_parser.py 211) ends
\* without a return: after a sleep of `wait` the next turn sends the request
\* with the headers built before the loop, or the loop is over and line 267
\* returns None
NextAttempt(q, wait) ==
    IF q.attempt + 1 < max_retries
    THEN [SendGet([q EXCEPT !.t = @ + wait,
                            !.attempt = @ + 1,
                            !.waits = IF wait > 0
                                      THEN Append(@, Slept(q.received[Len(q.received)],
                                                           q.attempt, wait))
                                      ELSE @]) EXCEPT !.pc = "get"]
    ELSE Finish(q, "none")

\* what the time a response takes is: a request that times out has waited
\* for the whole timeout
took(r) == IF r = "timeout" THEN request_timeout ELSE 0

\* make_api_request is called (reddit_parser.py 198-208): get_access_token
\* keeps a cached token while now < token_expires_at (lines 162-165), and
\* asks for a new one otherwise
RedditStart ==
    /\ rq.client = "reddit"
    /\ rq.pc = "start"
    /\ rq' = IF rq.access_token.set /\ rq.t < rq.token_expires_at
             THEN [SendGet([rq EXCEPT !.hdr = rq.access_token]) EXCEPT !.pc = "get"]
             ELSE [rq EXCEPT !.pc = "token", !.after = "first", !.tokenRequests = @ + 1]
    /\ UNCHANGED <<monitorVars, filterVars, keyVars, yt, tg, run, ad>>

\* the token request of get_access_token is answered (lines 181-196), to the
\* call of line 200 or to the call of line 233
RedditToken(ok) ==
    /\ rq.client = "reddit"
    /\ rq.pc = "token"
    /\ rq' = IF ok
             THEN LET q == [rq EXCEPT !.access_token = [set |-> TRUE, expires |-> rq.t + expires_in],
                                      !.token_expires_at = rq.t + expires_in - token_margin,
                                      !.hdr = [set |-> TRUE, expires |-> rq.t + expires_in]]
                  IN  [SendGet(q) EXCEPT !.pc = IF rq.after = "first" THEN "get" ELSE "reget"]
             ELSE IF rq.after = "first" THEN Finish(rq, "none")
             ELSE NextAttempt(rq, 0)
    /\ UNCHANGED <<monitorVars, filterVars, keyVars, yt, tg, run, ad>>

\* the request of line 224 meets r (lines 225-265)
RedditResponse(r) ==
    /\ rq.client = "reddit"
    /\ rq.pc = "get"
    /\ LET q == [rq EXCEPT !.received = Append(@, r), !.t = @ + took(r)] IN
       rq' = CASE r = "200" -> Finish(q, "data")
               [] r = "401" -> [q EXCEPT !.access_token = NoToken,
                                          !.pc = "token",
                                          !.after = "refresh",
                                          !.tokenRequests = @ + 1]
               [] r = "429" -> NextAttempt(q, (q.attempt + 1) * 5)
               [] r = "timeout" -> NextAttempt(q, (q.attempt + 1) * 3)
               [] r \in {"connerr", "200badjson"} -> NextAttempt(q, (q.attempt + 1) * 2)
               [] OTHER -> Finish(q, "none")
    /\ UNCHANGED <<monitorVars, filterVars, keyVars, yt, tg, run, ad>>

\* the request of line 235, sent again after a 401 with the new token, meets
\* r: a 200 is returned, an exception goes to the except clauses, and after
\* any other status the turn of the loop ends
RedditRetryResponse(r) ==
    /\ rq.client = "reddit"
    /\ rq.pc = "reget"
    /\ LET q == [rq EXCEPT !.received = Append(@, r), !.t = @ + took(r)] IN
       rq' = CASE r = "200" -> Finish(q, "data")
               [] r = "timeout" -> NextAttempt(q, (q.attempt + 1) * 3)
               [] r \in {"connerr", "200badjson"} -> NextAttempt(q, (q.attempt + 1) * 2)
               [] OTHER -> NextAttempt(q, 0)
    /\ UNCHANGED <<monitorVars, filterVars, keyVars, yt, tg, run, ad>>

\* a request of the Reddit parser about to be made, the parser holding no
\* token or a token whose declared expiry is e
RedditRequest(token, e) ==
    [client |-> "reddit", done |-> FALSE, result |-> "pending", requests |-> 0,
     received |-> <<>>, waits |-> <<>>, pc |-> "start", attempt |-> 0, t |-> 0,
     access_token |-> IF token THEN [set |-> TRUE, expires |-> e] ELSE NoToken,
     token_expires_at |-> e - token_margin,
     hdr |-> NoToken, sent |-> <<>>, after |-> "first", tokenRequests |-> 0]

InitFetch ==
    /\ MonitorIdle
    /\ last_comments = << >>
    /\ first_run = TRUE
    /\ parser_start_time = 0
    /\ fArgs = [parser_name |-> "", current_comments |-> <<>>]
    /\ fPre = <<>>
    /\ fOut = <<>>
    /\ kPair = <<>>
    /\ kKeys = <<>>
    /\ yt = YtIdle
    /\ tg = TgIdle
    /\ run = RunIdle
    /\ ad = AdIdle
    /\ rq \in {[client |-> c, done |-> FALSE, result |-> "pending", requests |-> 0,
                 received |-> <<>>, waits |-> <<>>, responses |-> r] :
                    c \in {"vk", "youtube"}, r \in [1..max_retries -> Kinds]}
              \cup {RedditRequest(FALSE, 0)}
              \cup {RedditRequest(TRUE, e) : e \in {token_margin - 1, token_margin + 1, expires_in}}

NextFetch ==
    \/ RequestCall
    \/ RedditStart
    \/ \E ok \in BOOLEAN : RedditToken(ok)
    \/ \E r \in Kinds : RedditResponse(r)
    \/ \E r \in Kinds : RedditRetryResponse(r)

SpecFetch == InitFetch /\ [][NextFetch]_vars

----------------------------------------------------------------------------
(* YouTubeParser.get_comments step by step, within the cycles of the         *)
(* monitor: each request of the parser goes through                          *)
(* make_request_with_retry and meets the responses of a script.              *)

\* the videos get_comments asks the comments of (up to 20 in the code)
MaxVideos == 2

\* what a request of the parser meets
QuotaKinds == {"200", "403quota", "503", "404"}

Scripts == [1..max_retries -> QuotaKinds]

\* yt after a request that issued out.requests HTTP requests, the i-th of
\* which met responses[i]
Noted(y, responses, out) ==
    [y EXCEPT !.quotaSeen = @ \/ \E i \in 1..out.requests : responses[i] = "403quota",
              !.retried = @ \/ \E i \in 1..(out.requests - 1) : responses[i] = "403quota"]

\* get_comments is called (lines 337-350), get_video_ids (lines 232-241) and
\* get_uploads_playlist_id up to its first request (lines 200-210)
YtBegin ==
    /\ phase = "cycling"
    /\ "YouTube" \in parsers
    /\ pc["YouTube"] = "fetch"
    /\ yt.stage = "idle"
    /\ LET y == [yt EXCEPT !.quota = FALSE, !.data = FALSE, !.videos = 0,
                           !.quotaSeen = FALSE, !.retried = FALSE] IN
       yt' = IF yt.uploads_playlist_id THEN [y EXCEPT !.stage = "ids"]
             ELSE IF yt.playlist_id_loaded THEN [y EXCEPT !.stage = "return"]
             ELSE [y EXCEPT !.playlist_id_loaded = TRUE,
                            !.resolves = @ + 1,
                            !.stage = IF yt.username THEN "username" ELSE "playlist"]
    /\ UNCHANGED <<monitorVars, filterVars, keyVars, rq, tg, run, ad>>

\* one of the requests made in turn (get_channel_id_by_username lines
\* 179-198, get_uploads_playlist_id lines 212-229, get_video_ids lines
\* 243-262) meets `responses`; items: the body of a 200 holds items, n of
\* them when they are videos
YtRequest(responses, items, n) ==
    /\ yt.stage \in {"username", "playlist", "ids"}
    /\ LET out == make_request_with_retry("youtube", responses)
           y == Noted(yt, responses, out)
       IN  yt' = CASE out.result = "quota" -> [y EXCEPT !.stage = "raise"]
                   [] out.result = "data" /\ items /\ yt.stage = "username" ->
                        [y EXCEPT !.stage = "playlist", !.username = FALSE]
                   [] out.result = "data" /\ items /\ yt.stage = "playlist" ->
                        [y EXCEPT !.stage = "ids", !.uploads_playlist_id = TRUE]
                   [] out.result = "data" /\ items /\ yt.stage = "ids" ->
                        [y EXCEPT !.stage = "videos", !.videos = n]
                   [] OTHER -> [y EXCEPT !.stage = "return"]
    /\ UNCHANGED <<monitorVars, filterVars, keyVars, rq, tg, run, ad>>

\* one of the gathered get_video_comments tasks (lines 264-335) ends, its
\* request having met `responses`; after the last one get_comments looks at
\* the results (lines 362-369)
YtVideoCommentsMutSwallow(responses, items) ==
    /\ yt.stage = "videos"
    /\ LET out == make_request_with_retry("youtube", responses)
           y == [Noted(yt, responses, out) EXCEPT
                    !.videos = @ - 1,
                    !.data = @ \/ (out.result = "data" /\ items)]
       IN  yt' = IF y.videos > 0 THEN y
                 ELSE [y EXCEPT !.stage = IF y.quota THEN "raise" ELSE "return"]
    /\ UNCHANGED <<monitorVars, filterVars, keyVars, rq, tg, run, ad>>
YtVideoComments(responses, items) ==
    /\ yt.stage = "videos"
    /\ LET out == make_request_with_retry("youtube", responses)
           y == [Noted(yt, responses, out) EXCEPT
                    !.videos = @ - 1,
                    !.quota = @ \/ out.result = "quota",
                    !.data = @ \/ (out.result = "data" /\ items)]
       IN  yt' = IF y.videos > 0 THEN y
                 ELSE [y EXCEPT !.stage = IF y.quota THEN "raise" ELSE "return"]
    /\ UNCHANGED <<monitorVars, filterVars, keyVars, rq, tg, run, ad>>

\* YouTubeQuotaExceeded leaves get_comments (lines 376-378) and is caught
\* by _check_single_parser
YtRaise ==
    /\ yt.stage = "raise"
    /\ FetchRaise("YouTube", "quota")
    /\ yt' = [yt EXCEPT !.stage = "idle"]
    /\ UNCHANGED <<filterVars, keyVars, rq, tg, run, ad>>

\* get_comments returns: [] unless a task has returned comments (lines 352,
\* 371-374, 379-381)
YtReturn(comments) ==
    /\ yt.stage = "return"
    /\ (comments # <<>>) => yt.data
    /\ (comments = <<>>) => ~yt.data
    /\ FetchReturn("YouTube", comments)
    /\ yt' = [yt EXCEPT !.stage = "idle"]
    /\ UNCHANGED <<filterVars, keyVars, rq, tg, run, ad>>

InitQuota ==
    /\ fArgs = [parser_name |-> "", current_comments |-> <<>>]
    /\ fPre = <<>>
    /\ fOut = <<>>
    /\ kPair = <<>>
    /\ kKeys = <<>>
    /\ rq = NoRequest
    /\ yt \in {[YtIdle EXCEPT !.username = u] : u \in BOOLEAN}
    /\ tg = TgIdle
    /\ run = RunIdle
    /\ ad = AdIdle
    /\ MonitorInit(ConfigFor({"YouTube", "VK"}),
                   [s \in {"YouTube", "VK"} |-> TinyFeed], NoFile, {MaxTime})

NextQuota ==
    \/ StartCycle /\ UNCHANGED <<filterVars, keyVars, clientVars>>
    \/ YtBegin
    \/ \E responses \in Scripts : \E items \in BOOLEAN : \E n \in 1..MaxVideos :
          YtRequest(responses, items, n)
    \/ \E responses \in Scripts : \E items \in BOOLEAN : YtVideoComments(responses, items)
    \/ YtRaise
    \/ \E comments \in feed["YouTube"] : YtReturn(comments)
    \/ \E comments \in get_comments("VK") :
          FetchReturn("VK", comments) /\ UNCHANGED <<filterVars, keyVars, clientVars>>
    \/ FetchRaise("VK", "error") /\ UNCHANGED <<filterVars, keyVars, clientVars>>
    \/ \E s \in parsers : SendComment(s) /\ UNCHANGED <<filterVars, keyVars, clientVars>>
    \/ \E outcome \in {"written"} : EndCycle(outcome) /\ UNCHANGED <<filterVars, keyVars, clientVars>>

\* the event loop runs every task that can run
SpecQuota == InitQuota /\ [][NextQuota]_vars /\ WF_vars(NextQuota)

----------------------------------------------------------------------------
(* The adapters: get_comments of VKParser, RedditParser and YouTubeParser,   *)
(* from the answers of the API to the list that is returned.  The first      *)
(* request lists the containers (posts, videos); one request per container   *)
(* then asks for its comments, and the requests are gathered.                *)

\* the largest limit get_comments is called with (400 and 600 in main.py)
MaxLimit == 3

\* the containers the first request lists, in the order of its answer
Containers == <<"p1", "p2">>

\* the body Reddit shows for a deleted comment
Deleted == <<"[", "d", "e", "l", "e", "t", "e", "d", "]">>

\* the mark put before the text of a reply
ReplyMark == <<"↳", " ">>

\* str.strip() for the texts of the model, whose only whitespace is " "
RECURSIVE lstrip(_)
lstrip(text) == IF text # <<>> /\ Head(text) = " " THEN lstrip(Tail(text)) ELSE text

RECURSIVE rstrip(_)
rstrip(text) ==
    IF text # <<>> /\ text[Len(text)] = " "
    THEN rstrip(SubSeq(text, 1, Len(text) - 1))
    ELSE text

str_strip(text) == rstrip(lstrip(text))

\* what the API holds: comments with a text and a date, a top-level comment
\* with its replies
RawReplies == {[text |-> t, date |-> d] : t \in {<<>>, <<"r">>, Deleted}, d \in {0, MaxTime}}

RawItems ==
    {[text |-> t, date |-> d, replies |-> rs] :
        t \in {<<>>, <<" ">>, <<"x", " ">>, Deleted},
        d \in {0, MaxTime},
        rs \in {<<>>} \cup {<<r>> : r \in RawReplies}}

\* what the request for the comments of one container ends in: "failed"
\* when make_request_with_retry or make_api_request returns None, "quota"
\* when it raises YouTubeQuotaExceeded, else the items of the answer
Answer(status, items) == [status |-> status, items |-> items]

Answers(adapter) ==
    {Answer("failed", <<>>)}
        \cup (IF adapter = "YouTube" THEN {Answer("quota", <<>>)} ELSE {})
        \cup {Answer("items", <<>>)} \cup {Answer("items", <<i>>) : i \in RawItems}

\* datetime.fromtimestamp(date): the naive datetime of the local time of
\* the host at the instant `date`
fromtimestamp(date) == Naive(date + ad.utcoffset)

\* datetime.fromtimestamp(date, tz=timezone.utc).replace(tzinfo=None): the
\* naive datetime of UTC
utcfromtimestamp(date) == Naive(date)

\* VKParser.parse_comment (vk_parser.py 221-247): the text stripped, the
\* date as a naive datetime of local time
vk_parse_comment(comment_data) ==
    Comment(<<"a">>, str_strip(comment_data.text), fromtimestamp(comment_data.date), <<"u">>)

\* RedditParser.parse_comment (reddit_parser.py 301-325)
reddit_parse_comment(comment_data) ==
    Comment(<<"a">>, str_strip(comment_data.text), utcfromtimestamp(comment_data.date), <<"u">>)

\* the Comment built by get_video_comments (youtube_parser.py 279-296): the
\* text as it came, the date as an aware datetime of UTC
youtube_comment(snippet) ==
    Comment(<<"a">>, snippet.text, Aware(snippet.date, 0), <<"u">>)

marked(reply) == [reply EXCEPT !.text = ReplyMark \o @]

\* the loop over thread.items (vk_parser.py 289-295)
RECURSIVE vk_replies(_)
vk_replies(items) ==
    IF items = <<>> THEN <<>>
    ELSE LET reply == vk_parse_comment(Head(items)) IN
         (IF reply.text # <<>> THEN <<marked(reply)>> ELSE <<>>) \o vk_replies(Tail(items))

\* the loop over the comments of one post (vk_parser.py 283-295)
RECURSIVE vk_collect(_)
vk_collect(comments_data) ==
    IF comments_data = <<>> THEN <<>>
    ELSE LET comment_data == Head(comments_data)
             comment == vk_parse_comment(comment_data)
         IN  (IF comment.text # <<>> THEN <<comment>> ELSE <<>>)
                \o vk_replies(comment_data.replies)
                \o vk_collect(Tail(comments_data))

\* the loop over replies.data.children (reddit_parser.py 374-379)
RECURSIVE reddit_replies(_)
reddit_replies(children) ==
    IF children = <<>> THEN <<>>
    ELSE LET reply_data == Head(children)
             reply == reddit_parse_comment(reply_data)
         IN  (IF reply_data.text # Deleted /\ reply.text # <<>>
              THEN <<marked(reply)>> ELSE <<>>) \o reddit_replies(Tail(children))

\* the loop over the comments of one post (reddit_parser.py 363-379): a
\* deleted comment is skipped together with its replies
RECURSIVE reddit_collect(_)
reddit_collect(comments_data) ==
    IF comments_data = <<>> THEN <<>>
    ELSE LET comment_data == Head(comments_data)
             comment == reddit_parse_comment(comment_data)
         IN  (IF comment_data.text = Deleted THEN <<>>
              ELSE (IF comment.text # <<>> THEN <<comment>> ELSE <<>>)
                      \o reddit_replies(comment_data.replies))
                \o reddit_collect(Tail(comments_data))

\* the loop over item.replies.comments (youtube_parser.py 298-317)
RECURSIVE youtube_replies(_)
youtube_replies(comments) ==
    IF comments = <<>> THEN <<>>
    ELSE <<marked(youtube_comment(Head(comments)))>> \o youtube_replies(Tail(comments))

\* the loop over the items of one video (youtube_parser.py 275-317)
RECURSIVE youtube_collect(_)
youtube_collect(items) ==
    IF items = <<>> THEN <<>>
    ELSE <<youtube_comment(Head(items))>>
            \o youtube_replies(Head(items).replies)
            \o youtube_collect(Tail(items))

\* get_post_comments (vk_parser.py 195-219, reddit_parser.py 288-299) and
\* the data get_video_comments works on (youtube_parser.py 273-276): no
\* answer gives an empty list
post_comments(answer) == IF answer.status = "items" THEN answer.items ELSE <<>>

\* the results of the gathered requests, worked through in the order of the
\* containers (vk_parser.py 277-295, reddit_parser.py 357-379,
\* youtube_parser.py 362-369)
RECURSIVE vk_all(_, _)
vk_all(answers, i) ==
    IF i > Len(Containers) THEN <<>>
    ELSE vk_collect(post_comments(answers[Containers[i]])) \o vk_all(answers, i + 1)

RECURSIVE reddit_all(_, _)
reddit_all(answers, i) ==
    IF i > Len(Containers) THEN <<>>
    ELSE reddit_collect(post_comments(answers[Containers[i]])) \o reddit_all(answers, i + 1)

RECURSIVE youtube_all(_, _)
youtube_all(answers, i) ==
    IF i > Len(Containers) THEN <<>>
    ELSE youtube_collect(post_comments(answers[Containers[i]])) \o youtube_all(answers, i + 1)

\* list.sort(key=lambda x: x.timestamp, reverse=True): a stable sort, the
\* newest first
RECURSIVE insort(_, _)
insort(comment, sorted) ==
    IF sorted = <<>> THEN <<comment>>
    ELSE IF Instant(Head(sorted).timestamp) >= Instant(comment.timestamp)
         THEN <<Head(sorted)>> \o insort(comment, Tail(sorted))
         ELSE <<comment>> \o sorted

RECURSIVE sort_newest_first(_)
sort_newest_first(all_comments) ==
    IF all_comments = <<>> THEN <<>>
    ELSE insort(all_comments[Len(all_comments)],
                sort_newest_first(SubSeq(all_comments, 1, Len(all_comments) - 1)))

Returned(comments) == [raised |-> FALSE, comments |-> comments]
Raised == [raised |-> TRUE, comments |-> <<>>]

\* VKParser.get_comments (vk_parser.py 249-306); listed: what the request
\* for the posts ended in, "items" when it listed the containers
vk_get_commentsMutAllOrNothing(listed, answers, limit) ==
    IF listed # "items" \/ \E i \in 1..Len(Containers) : answers[Containers[i]].status = "failed"
    THEN Returned(<<>>)
    ELSE Returned(Slice(sort_newest_first(vk_all(answers, 1)), limit))
vk_get_comments(listed, answers, limit) ==
    IF listed # "items" THEN Returned(<<>>)
    ELSE Returned(Slice(sort_newest_first(vk_all(answers, 1)), limit))

\* RedditParser.get_comments (reddit_parser.py 327-398)
reddit_get_commentsMutUnsorted(listed, answers, limit) ==
    IF listed # "items" THEN Returned(<<>>)
    ELSE LET all_comments == reddit_all(answers, 1) IN
         Returned(IF limit # 0 THEN Slice(all_comments, limit) ELSE all_comments)
reddit_get_comments(listed, answers, limit) ==
    IF listed # "items" THEN Returned(<<>>)
    ELSE LET all_comments == sort_newest_first(reddit_all(answers, 1)) IN
         Returned(IF limit # 0 THEN Slice(all_comments, limit) ELSE all_comments)

\* YouTubeParser.get_comments (youtube_parser.py 337-381)
youtube_get_comments(listed, answers, limit) ==
    IF listed = "quota" THEN Raised
    ELSE IF listed # "items" THEN Returned(<<>>)
    ELSE IF \E i \in 1..Len(Containers) : answers[Containers[i]].status = "quota" THEN Raised
    ELSE Returned(Slice(sort_newest_first(youtube_all(answers, 1)), limit))

\* what the three adapters are called on
AdapterCalls ==
    {[adapter |-> a, listed |-> l, answers |-> f, limit |-> n, utcoffset |-> 0, called |-> FALSE,
      returned |-> Returned(<<>>)] :
        a \in {"VK", "Reddit"}, l \in {"items"},
        f \in [Range(Containers) -> Answers("VK")], n \in 1..MaxLimit}
    \cup
    {[adapter |-> "YouTube", listed |-> "items", answers |-> f, limit |-> n,
      utcoffset |-> 0, called |-> FALSE, returned |-> Returned(<<>>)] :
        f \in [Range(Containers) -> Answers("YouTube")], n \in 1..MaxLimit}
    \cup
    {[adapter |-> a, listed |-> l, answers |-> [p \in Range(Containers) |-> Answer("items", <<>>)],
      limit |-> n, utcoffset |-> 0, called |-> FALSE, returned |-> Returned(<<>>)] :
        a \in {"VK", "Reddit", "YouTube"}, l \in {"none"}, n \in 1..MaxLimit}
    \cup
    {[adapter |-> "YouTube", listed |-> "quota",
      answers |-> [p \in Range(Containers) |-> Answer("items", <<>>)],
      limit |-> n, utcoffset |-> 0, called |-> FALSE, returned |-> Returned(<<>>)] : n \in 1..MaxLimit}

VkGetComments ==
    /\ ad.adapter = "VK"
    /\ ~ad.called
    /\ ad' = [ad EXCEPT !.called = TRUE,
                        !.returned = vk_get_comments(ad.listed, ad.answers, ad.limit)]
    /\ UNCHANGED <<monitorVars, filterVars, keyVars, rq, yt, tg, run>>

RedditGetComments ==
    /\ ad.adapter = "Reddit"
    /\ ~ad.called
    /\ ad' = [ad EXCEPT !.called = TRUE,
                        !.returned = reddit_get_comments(ad.listed, ad.answers, ad.limit)]
    /\ UNCHANGED <<monitorVars, filterVars, keyVars, rq, yt, tg, run>>

YoutubeGetComments ==
    /\ ad.adapter = "YouTube"
    /\ ~ad.called
    /\ ad' = [ad EXCEPT !.called = TRUE,
                        !.returned = youtube_get_comments(ad.listed, ad.answers, ad.limit)]
    /\ UNCHANGED <<monitorVars, filterVars, keyVars, rq, yt, tg, run>>

InitAdapter ==
    /\ MonitorIdle
    /\ last_comments = << >>
    /\ first_run = TRUE
    /\ parser_start_time = 0
    /\ fArgs = [parser_name |-> "", current_comments |-> <<>>]
    /\ fPre = <<>>
    /\ fOut = <<>>
    /\ kPair = <<>>
    /\ kKeys = <<>>
    /\ rq = NoRequest
    /\ yt = YtIdle
    /\ tg = TgIdle
    /\ run = RunIdle
    /\ ad \in AdapterCalls

NextAdapter ==
    \/ VkGetComments
    \/ RedditGetComments
    \/ YoutubeGetComments

SpecAdapter == InitAdapter /\ [][NextAdapter]_vars

----------------------------------------------------------------------------
(* The VK task of the monitor with its adapter: the request for the posts    *)
(* goes through make_request_with_retry, and what get_comments returns is    *)
(* what _check_single_parser works on.                                       *)

\* the offsets of the local time of the host from UTC
HostOffsets == {-1, 0, 1}

\* what a request for the posts meets
PollScripts == [1..max_retries -> {"200", "503", "404"}]

\* what the requests for the comments of the posts end in
PollAnswers ==
    [Range(Containers) ->
        {Answer("failed", <<>>), Answer("items", <<>>)}
            \cup {Answer("items", <<[text |-> <<"x", " ">>, date |-> d, replies |-> <<>>]>>) :
                     d \in {0, MaxTime}}]

\* parser.get_comments(limit=...) of the VK task (main.py 639): wall.get
\* meets `responses` (vk_parser.py 157-193), the posts answer with
\* `answers`, and the task goes on with the list returned (lines 641-666)
VkPoll(responses, answers) ==
    /\ "VK" \in parsers
    /\ LET out == make_request_with_retry("vk", responses)
           listed == IF out.result = "data" THEN "items" ELSE "none"
           returned == vk_get_comments(listed, answers, MaxLimit)
       IN  /\ FetchReturn("VK", returned.comments)
           /\ ad' = [adapter |-> "VK", listed |-> listed, answers |-> answers,
                     limit |-> MaxLimit, utcoffset |-> ad.utcoffset, called |-> TRUE,
                     returned |-> returned]
    /\ UNCHANGED <<filterVars, keyVars, rq, yt, tg, run>>

InitPoll ==
    /\ fArgs = [parser_name |-> "", current_comments |-> <<>>]
    /\ fPre = <<>>
    /\ fOut = <<>>
    /\ kPair = <<>>
    /\ kKeys = <<>>
    /\ rq = NoRequest
    /\ yt = YtIdle
    /\ tg = TgIdle
    /\ run = RunIdle
    /\ ad \in {[AdIdle EXCEPT !.utcoffset = o] : o \in HostOffsets}
    /\ MonitorInit(ConfigFor({"VK"}), [s \in {"VK"} |-> TinyFeed], NoFile, {0})

NextPoll ==
    \/ StartCycle /\ UNCHANGED <<filterVars, keyVars, clientVars>>
    \/ \E responses \in PollScripts : \E answers \in PollAnswers : VkPoll(responses, answers)
    \/ SendComment("VK") /\ UNCHANGED <<filterVars, keyVars, clientVars>>
    \/ EndCycle("written") /\ UNCHANGED <<filterVars, keyVars, clientVars>>

SpecPoll == InitPoll /\ [][NextPoll]_vars

----------------------------------------------------------------------------
(* The profile table of the VK adapter: every answer of wall.getComments     *)
(* carries the profiles of the authors of its comments, get_post_comments    *)
(* keeps the table of the answer it received in self.profiles, and           *)
(* get_comments names the authors of the comments of every post from         *)
(* self.profiles once the requests of all posts have been gathered.          *)

\* the users who write comments (from_id)
Users == {"1", "2"}

\* the profile VK holds for a user
Profile(id) == [id |-> id, first_name |-> <<"N", id>>, last_name |-> <<>>]

\* what wall.getComments answers for one post: the comments (their
\* from_id) and, with extended=1, the profiles of their authors; or no
\* answer (make_api_request returned None)
Reply(status, authors) ==
    [status |-> status, items |-> authors,
     profiles |-> [id \in Range(authors) |-> Profile(id)]]

Replies ==
    {Reply("failed", <<>>)} \cup {Reply("items", a) : a \in SeqsUpTo(Users, MaxBatch)}

\* the author of parse_comment (vk_parser.py 222-230): the name of the
\* profile when the table has the from_id, else "ID" and the from_id
vk_author_name(from_id, profiles) ==
    IF from_id \in DOMAIN profiles
    THEN str_strip(profiles[from_id].first_name \o <<" ">> \o profiles[from_id].last_name)
    ELSE <<"I", "D", from_id>>

\* the Comment objects of the loop over tasks (vk_parser.py 277-287), with
\* the post each came from
RECURSIVE vk_named(_, _, _)
vk_named(answers, profiles, i) ==
    IF i > Len(Containers) THEN <<>>
    ELSE LET post_id == Containers[i] IN
         [k \in 1..Len(answers[post_id].items) |->
             [post_id |-> post_id, from_id |-> answers[post_id].items[k],
              author |-> vk_author_name(answers[post_id].items[k], profiles)]]
            \o vk_named(answers, profiles, i + 1)

\* VKParser after __init__ (vk_parser.py 151), before a get_comments
ProfileCalls ==
    {[adapter |-> "VK", utcoffset |-> 0, answers |-> f, profiles |-> << >>,
      done |-> {}, gathered |-> FALSE, returned |-> <<>>, cycle |-> 1] :
        f \in [Range(Containers) -> Replies]}

\* get_post_comments(post_id) receives its answer (vk_parser.py 214-219)
VkPostComments(post_id) ==
    /\ ad.adapter = "VK"
    /\ ~ad.gathered
    /\ post_id \notin ad.done
    /\ ad' = [ad EXCEPT !.done = @ \cup {post_id},
                        !.profiles = IF ad.answers[post_id].status = "items"
                                     THEN ad.answers[post_id].profiles
                                     ELSE @]
    /\ UNCHANGED <<monitorVars, filterVars, keyVars, rq, yt, tg, run>>

\* asyncio.gather has returned: the loop over the results (lines 274-295)
VkGathered ==
    /\ ad.adapter = "VK"
    /\ ~ad.gathered
    /\ ad.done = Range(Containers)
    /\ ad' = [ad EXCEPT !.gathered = TRUE,
                        !.returned = vk_named(ad.answers, ad.profiles, 1)]
    /\ UNCHANGED <<monitorVars, filterVars, keyVars, rq, yt, tg, run>>

\* the get_comments of the next cycle, on the same comments
VkNextCycle ==
    /\ ad.adapter = "VK"
    /\ ad.gathered
    /\ ad.cycle < MaxCycles
    /\ ad' = [ad EXCEPT !.gathered = FALSE, !.done = {}, !.cycle = @ + 1]
    /\ UNCHANGED <<monitorVars, filterVars, keyVars, rq, yt, tg, run>>

InitProfiles ==
    /\ MonitorIdle
    /\ last_comments = << >>
    /\ first_run = TRUE
    /\ parser_start_time = 0
    /\ fArgs = [parser_name |-> "", current_comments |-> <<>>]
    /\ fPre = <<>>
    /\ fOut = <<>>
    /\ kPair = <<>>
    /\ kKeys = <<>>
    /\ rq = NoRequest
    /\ yt = YtIdle
    /\ tg = TgIdle
    /\ run = RunIdle
    /\ ad \in ProfileCalls

NextProfiles ==
    \/ \E post_id \in Range(Containers) : VkPostComments(post_id)
    \/ VkGathered
    \/ VkNextCycle

SpecProfiles == InitProfiles /\ [][NextProfiles]_vars

----------------------------------------------------------------------------
(* Properties *)

\* the first n elements of seq, or all of seq when it has fewer
IsFirstN(out, seq, n) ==
    /\ Len(out) = (IF Len(seq) <= n THEN Len(seq) ELSE n)
    /\ \A i \in 1..Len(out) : out[i] = seq[i]

\* out is the subsequence of cs, in the order of cs, of the elements at the
\* positions in idx
IsSubsequenceAt(out, cs, idx) ==
    /\ Len(out) = Cardinality(idx)
    /\ \A i \in idx : out[Cardinality({j \in idx : j <= i})] = cs[i]

\* C1: no comment written before parser_start_time is in a value returned by
\* get_new_comments, waits to be sent or has been passed to send_comment,
\* whatever the stored state and whether or not its key is known.
C1_NoPreStartEmission ==
    \A s \in parsers :
        \A c \in Range(result[s].new_comments) \cup Range(pending[s]) \cup Range(sink[s]) :
            Instant(c.timestamp) >= parser_start_time

\* C1 witness: a task is sending, and its batch held a comment from before the
\* start whose author, text and url are not in the stored list.
C1_Witness ==
    \E s \in parsers :
        /\ pc[s] = "send"
        /\ \E c \in Range(result[s].comments) :
              /\ Instant(c.timestamp) < parser_start_time
              /\ Triple(c) \notin {Triple(d) : d \in Range(last_comments[s])}

\* C2 (as claimed): no author, text and url passed to send_comment for a source
\* in this cycle was passed to it for that source in an earlier cycle.
C2_NoDuplicateAcrossCycles ==
    \A s \in parsers :
        \A c \in Range(sink[s]) : Triple(c) \notin sentBefore[s]

\* C3: while the first cycle of a process that loaded no stored comments is
\* running, get_new_comments has returned nothing and nothing has been sent
\* or queued, for every source.
C3_ColdFirstCycleSilent ==
    (total_checks = 1 /\ phase = "cycling" /\ DOMAIN load_state(disk) = {}) =>
        \A s \in parsers :
            /\ sink[s] = <<>>
            /\ pending[s] = <<>>
            /\ result[s].new_comments = <<>>

\* C3 witness: the first cycle of a cold process, every source has fetched a
\* non-empty batch written after the start.
C3_Witness ==
    /\ total_checks = 1
    /\ phase = "cycling"
    /\ DOMAIN load_state(disk) = {}
    /\ parsers = SourceNames
    /\ \A s \in parsers :
          /\ pc[s] = "done"
          /\ result[s].comments # <<>>
          /\ \A c \in Range(result[s].comments) : Instant(c.timestamp) >= parser_start_time

\* C4: when get_comments returns for a source that has no entry in
\* last_comments, the task ends at once: get_new_comments returns nothing and
\* nothing is sent.
C4_UnseenSourceSilent ==
    [][\A s \in parsers :
          (pc[s] = "fetch" /\ pc'[s] \in {"send", "done"} /\ s \notin DOMAIN last_comments)
              => /\ pc'[s] = "done"
                 /\ result'[s].new_comments = <<>>
                 /\ pending'[s] = <<>>
                 /\ sink'[s] = <<>>]_vars

\* C4 witness: past the first cycle, a source absent from the state saved by
\* the previous cycle while another source is in it has fetched a non-empty
\* batch written after the start, and is done with nothing sent.
C4_Witness ==
    \E s \in parsers :
        /\ total_checks >= 2
        /\ phase = "cycling"
        /\ s \notin DOMAIN load_state(disk)
        /\ DOMAIN load_state(disk) # {}
        /\ pc[s] = "done"
        /\ result[s].comments # <<>>
        /\ \A c \in Range(result[s].comments) : Instant(c.timestamp) >= parser_start_time
        /\ sink[s] = <<>>

FieldsDiffering(c, d) ==
    (IF c.author # d.author THEN 1 ELSE 0)
        + (IF c.text # d.text THEN 1 ELSE 0)
        + (IF c.source_url # d.source_url THEN 1 ELSE 0)

\* C7: two comments with the same author, text and url have the same key
\* whatever their timestamps; two comments that differ in exactly one of
\* author, text and url have different keys.
C7_KeyOfFields ==
    kKeys # <<>> =>
        /\ FieldsDiffering(kPair[1], kPair[2]) = 0 => kKeys[1] = kKeys[2]
        /\ FieldsDiffering(kPair[1], kPair[2]) = 1 => kKeys[1] # kKeys[2]

\* C7 witness: the keys of two comments that differ only in the timestamp
\* have been computed.
C7_Witness ==
    /\ kKeys # <<>>
    /\ FieldsDiffering(kPair[1], kPair[2]) = 0
    /\ kPair[1].timestamp # kPair[2].timestamp

\* C8: with the task of a source a failed, the task of another source b is
\* failed only if its own get_comments raised; while b sends, the new comments
\* recorded are those of its own stored list; once b is done, its stored list
\* is the first 100 of its batch and what was sent is the first 10 of its new
\* comments.
C8_FailureIsolated ==
    \A a \in parsers : \A b \in parsers \ {a} :
        pc[a] = "failed" =>
            /\ pc[b] = "failed" => result[b].error \in Failures(b)
            /\ pc[b] = "send" =>
                  /\ result[b].new_comments # <<>>
                  /\ b \in DOMAIN last_comments
                  /\ IsSubsequenceAt(result[b].new_comments, result[b].comments,
                        {i \in 1..Len(result[b].comments) :
                            /\ Instant(result[b].comments[i].timestamp) >= parser_start_time
                            /\ \A d \in Range(last_comments[b]) :
                                  Key(result[b].comments[i]) # Key(d)})
            /\ pc[b] = "done" =>
                  /\ b \in DOMAIN last_comments
                  /\ IsFirstN(last_comments[b], result[b].comments, 100)
                  /\ IsFirstN(sink[b], result[b].new_comments, 10)

\* C8 witness: one task failed, the two others are done and each sent something.
C8_Witness ==
    \E a \in parsers :
        /\ pc[a] = "failed"
        /\ Cardinality(parsers) = 3
        /\ \A b \in parsers \ {a} : pc[b] = "done" /\ sink[b] # <<>>

\* C9: what a task has passed to send_comment is a prefix of its new comments,
\* newest first, and once the task is done it is the first 10 of them (all of
\* them when there are fewer).
C9_SendCap ==
    \A s \in parsers :
        /\ Len(sink[s]) <= Len(result[s].new_comments)
        /\ \A i \in 1..Len(sink[s]) : sink[s][i] = result[s].new_comments[i]
        /\ IsSorted(sink[s])
        /\ pc[s] \in {"done", "failed"} => IsFirstN(sink[s], result[s].new_comments, 10)

\* C9 witness: a task is done that had more than 10 new comments.
C9_Witness ==
    \E s \in parsers :
        /\ pc[s] = "done"
        /\ Len(result[s].new_comments) > 10
        /\ Len(sink[s]) = 10

C11_EveryCycleSavesOnce ==
    /\ phase = "cycling" => saves = 0
    /\ (phase = "idle" /\ total_checks > 0) => saves = 1

\* C11 (amended): a cycle of a monitor that has at least one parser writes the
\* state file exactly once, after the tasks of all its parsers have ended and
\* never while one of them runs; a cycle of a monitor without parsers writes
\* nothing.
C11_CycleWithParsersSavesOnce ==
    /\ phase = "cycling" => saves = 0
    /\ (phase = "idle" /\ total_checks > 0 /\ parsers # {}) => saves = 1
    /\ parsers = {} => saves = 0

\* C11 witness: a cycle of three parsers has ended with one write; one task
\* failed and another sent a comment.
C11_Witness ==
    /\ phase = "idle"
    /\ total_checks > 0
    /\ Cardinality(parsers) = 3
    /\ saves = 1
    /\ \E a \in parsers : result[a].error # "none"
    /\ \E b \in parsers : sink[b] # <<>>

\* C12: the step that builds a process sets parser_start_time to the time of
\* that step, whatever the state file records, and no other step (a cycle, a
\* save, a failed save, a shutdown) changes it.
C12_EpochFixed ==
    [][IF phase = "down" /\ phase' = "idle"
       THEN parser_start_time' = clock'
       ELSE parser_start_time' = parser_start_time]_vars

\* C12 witness: a process built on the snapshot an earlier process wrote has
\* run a cycle, and the snapshot it loaded recorded another start time.
C12_Witness ==
    /\ phase = "cycling"
    /\ total_checks = 1
    /\ \E s \in parsers : sentBefore[s] # {}
    /\ disk.exists
    /\ disk.complete
    /\ DOMAIN load_state(disk) # {}
    /\ fromisoformat(disk.parser_start_time).wall # parser_start_time

\* C13 (as claimed): a step that starts from a state file holding a complete
\* snapshot leaves either that snapshot or the complete new one, also when
\* the save fails or the process is killed during it.
C13_SnapshotNeverPartial ==
    [][(disk.exists /\ disk.complete) =>
          /\ disk'.exists
          /\ disk'.complete
          /\ disk' \in {disk, save_state}]_vars

\* C14 (as claimed): a process built on a complete state file has an entry
\* for every source of the file, with one comment for each dict of the file;
\* a key the dict lacks gives an empty field and other keys are ignored.
C14_LoadDefaultsMissingFields ==
    (phase = "idle" /\ total_checks = 0 /\ disk.exists /\ disk.complete) =>
        \A s \in DOMAIN disk.last_comments :
            /\ s \in DOMAIN last_comments
            /\ Len(last_comments[s]) = Len(disk.last_comments[s])
            /\ \A i \in 1..Len(disk.last_comments[s]) :
                  LET comment_data == disk.last_comments[s][i]
                      Field(k) == IF k \in DOMAIN comment_data THEN comment_data[k] ELSE <<>>
                  IN  /\ last_comments[s][i].author = Field("author")
                      /\ last_comments[s][i].text = Field("text")
                      /\ last_comments[s][i].source_url = Field("source_url")
                      /\ "timestamp" \in DOMAIN comment_data =>
                            last_comments[s][i].timestamp = fromisoformat(comment_data.timestamp)

\* C15 (as claimed): a parser whose get_comments has been called, or that
\* has an entry in last_comments or in the state file, is configured.
C15_OnlyConfiguredPolled ==
    \A s \in parsers :
        (\/ parser_stats[s].checks > 0
         \/ s \in DOMAIN last_comments
         \/ s \in DOMAIN load_state(disk)) => is_configured(s)

\* a request of the running get_comments call has met 403 quotaExceeded:
\* it was not sent again, and the exception is on its way out of
\* get_comments; once the task has ended, its result holds the quota error
\* and send_error was called once
C16_QuotaState ==
    /\ ~yt.retried
    /\ (yt.quotaSeen /\ yt.stage # "idle") =>
          (yt.stage = "raise" \/ (yt.stage = "videos" /\ yt.quota))
    /\ (yt.quotaSeen /\ yt.stage = "idle" /\ pc["YouTube"] # "fetch") =>
          /\ result["YouTube"].error = "quota"
          /\ alerts["YouTube"] = 1
          /\ pc["YouTube"] \in {"failed", "idle"}
    /\ (yt.quotaSeen /\ phase = "idle") => saves = 1

\* the step in which the task of YouTube ends after a quota response counts
\* one error in total_errors and in the counters of YouTube, and leaves the
\* task, the result, the counters and the stored batch of the other source
\* alone
C16_QuotaStep ==
    (yt.quotaSeen /\ yt.stage # "idle" /\ yt'.stage = "idle") =>
        /\ total_errors' = total_errors + 1
        /\ parser_stats'["YouTube"].errors = parser_stats["YouTube"].errors + 1
        /\ parser_stats'["VK"] = parser_stats["VK"]
        /\ pc'["VK"] = pc["VK"]
        /\ result'["VK"] = result["VK"]
        /\ alerts'["VK"] = alerts["VK"]
        /\ last_comments' = last_comments

\* C16: when a YouTube request of a cycle meets 403 quotaExceeded, it is not
\* retried and the condition is not swallowed: get_comments raises, the
\* monitor calls send_error exactly once and counts one error in
\* total_errors and in the source's counter, the other source is left
\* alone, and the cycle ends with one save of the state.
C16_QuotaSurfacesOnce ==
    /\ []C16_QuotaState
    /\ [][C16_QuotaStep]_vars
    /\ ((yt.quotaSeen /\ yt.stage # "idle")
            ~> (phase = "idle" /\ saves = 1 /\ disk = save_state
                               /\ result["YouTube"].error = "quota"))

\* C16 witness: a cycle has ended in which one video's request met the quota
\* response while another video's returned comments, and in which VK
\* delivered a comment
C16_Witness ==
    /\ phase = "idle"
    /\ yt.quotaSeen /\ yt.quota /\ yt.data
    /\ result["YouTube"].error = "quota"
    /\ alerts["YouTube"] = 1
    /\ saves = 1
    /\ sink["VK"] # <<>>
    /\ total_errors = 1

\* every parser has been polled once in each cycle so far, and in a running
\* cycle each has its task
C17_PolledEveryCycle ==
    /\ \A s \in parsers : parser_stats[s].checks = total_checks
    /\ phase = "cycling" =>
          \A s \in parsers : pc[s] \in {"fetch", "send", "done", "failed"}

\* the list of parsers is never changed, and the step that starts a cycle
\* calls get_comments of every parser, once
C17_CycleStep ==
    /\ parsers' = parsers
    /\ (phase = "idle" /\ phase' = "cycling") =>
          \A s \in parsers :
              /\ pc'[s] = "fetch"
              /\ parser_stats'[s].checks = parser_stats[s].checks + 1

\* C17: a source is never removed from the set of polled sources: every
\* cycle invokes get_comments once on every parser of the initial list, no
\* matter how many earlier cycles failed for it.
C17_FailingSourceStillPolled == []C17_PolledEveryCycle /\ [][C17_CycleStep]_vars

\* C17 witness: a source that failed in both earlier cycles is polled in the
\* third
C17_Witness ==
    /\ phase = "cycling"
    /\ total_checks = 3
    /\ \E s \in parsers : /\ parser_stats[s].errors = 2
                          /\ parser_stats[s].checks = 3
                          /\ pc[s] = "fetch"

\* C18 (as claimed): a request that has ended issued at most max_retries
\* HTTP requests, and one that met nothing but timeouts, 429 and 5xx
\* responses issued max_retries of them and returned failure.
C18_TransientRetriedToMax ==
    (rq.client # "none" /\ rq.done) =>
        /\ rq.requests <= max_retries
        /\ (rq.received # <<>> /\ \A i \in 1..Len(rq.received) : rq.received[i] \in {"timeout", "429", "500", "503"})
              => (rq.requests = max_retries /\ rq.result = "none")

\* C19 (as claimed): a 4xx response other than 429 is the last response of
\* its request: no HTTP request is issued after it, and the request ends in
\* failure.
C19_FatalStatusEndsRequest ==
    rq.client # "none" =>
        \A i \in 1..Len(rq.received) :
            rq.received[i] \in {"401", "403", "403quota", "404"} =>
                /\ rq.requests = i
                /\ rq.done
                /\ rq.result \in {"none", "quota"}

\* C20 (as claimed): every request of make_api_request was sent with a token
\* whose declared expiry lay in the future when it was sent, and a cached
\* token is used only while it has more than 60 seconds left.
C20_TokenFreshWhenSent ==
    rq.client = "reddit" =>
        \A i \in 1..Len(rq.sent) : rq.sent[i].expires > rq.sent[i].at

\* C21: send_comment and send_error make at most three send_message
\* calls per message and none after one has returned; when all have failed,
\* or there is no bot, the call returns: the task is not failed, no error is
\* counted for it, and once it has ended its stored list is the window of
\* the batch it fetched.
C21_DeliveryNeverFailsTask ==
    /\ tg.most <= send_retries
    /\ ~tg.afterOk
    /\ \A s \in DOMAIN tg.log : Len(tg.log[s]) < send_retries
    /\ "VK" \in parsers =>
          /\ parser_stats["VK"].errors = 0
          /\ total_errors = parser_stats["YouTube"].errors
    /\ \A s \in tg.dropped :
          /\ result[s].error = "none"
          /\ pc[s] # "failed"
          /\ pc[s] \in {"done", "idle"} =>
                /\ s \in DOMAIN last_comments
                /\ last_comments[s] = StoredWindow(result[s].comments)

\* C21 witness: the first of two comments of VK was dropped after three
\* failed send_message calls, the second was handed over, and the task has
\* ended with the batch stored
C21_Witness ==
    /\ tg.bot
    /\ tg.most = send_retries
    /\ "VK" \in tg.dropped
    /\ pc["VK"] = "done"
    /\ Len(sink["VK"]) = 2
    /\ Len(last_comments["VK"]) = 2

\* C24 (as claimed): the time at which the tasks of a cycle are joined and
\* the state is saved is the time the fetches took (none here), however the
\* deliveries went.
C24_SinkNeverDelaysCycle ==
    (phase = "idle" /\ total_checks > 0) => tg.joined = 0

\* once the event is set no cycle is started and the event stays set
C22_NoCycleAfterSignal ==
    run.shutdown_event => (total_checks' = total_checks /\ run'.shutdown_event)

\* the process ends through the finally clause only: every session closed,
\* one final save that wrote the state as it is, the statistics printed once
C22_ExitedCleanly ==
    phase = "down" =>
        /\ run.shutdown_event
        /\ run.closed = parsers
        /\ run.final_saves = 1
        /\ run.final_stats = 1
        /\ disk = save_state

\* C22: once the shutdown event is set, between two cycles or inside one,
\* no further cycle is started; run() then closes every parser's session,
\* saves the state once and prints the final statistics, and returns.
C22_ShutdownStopsPolling ==
    /\ [][C22_NoCycleAfterSignal]_vars
    /\ []C22_ExitedCleanly
    /\ (run.shutdown_event ~> phase = "down")

\* C22 witness: the event was set inside the second cycle, the cycle went on
\* to its end, and run() has returned
C22_Witness ==
    /\ phase = "down"
    /\ total_checks = 2
    /\ Len(run.fetched) = 2
    /\ Len(run.sent) = 2
    /\ saves = 2
    /\ run.closed = {"VK"}

\* a process started without a state file fetched the same batch of one
\* comment written at or after its start in every cycle so far
C23_SameBatchFromCold ==
    /\ run.cold
    /\ run.fetched # <<>>
    /\ Len(run.fetched[1]) = 1
    /\ PassesStart(run.fetched[1][1])
    /\ \A i \in 1..Len(run.fetched) : run.fetched[i] = run.fetched[1]

\* C23 (as claimed): of three cycles that fetch the same one-item batch
\* after a start without prior state, the first sends nothing, the second
\* sends the item and the third sends nothing.
C23_SecondCycleEmits ==
    C23_SameBatchFromCold =>
        \A i \in 1..Len(run.sent) :
            run.sent[i] = IF i = 2 THEN run.fetched[1] ELSE <<>>

\* C23 (amended): of three cycles that fetch the same one-item batch after a
\* start without prior state, none sends anything: the first cycle stores
\* the batch, so the item is known from the second cycle on.
C23_NoCycleEmits ==
    C23_SameBatchFromCold =>
        /\ \A i \in 1..Len(run.sent) : run.sent[i] = <<>>
        /\ (Len(run.sent) >= 1 /\ phase # "cycling") => last_comments["VK"] = run.fetched[1]

\* C23 witness: three such cycles have ended
C23_Witness ==
    /\ C23_SameBatchFromCold
    /\ Len(run.fetched) = 3
    /\ Len(run.sent) = 3
    /\ total_checks = 3

\* C26 (as claimed): while the tasks of a cycle are running, no step writes
\* last_comments or the counters of the statistics; they change only after
\* the tasks have joined.
C26_TasksWriteNothingShared ==
    [][(phase = "cycling" /\ phase' = "cycling") =>
          UNCHANGED <<last_comments, total_errors, parser_stats>>]_vars

\* C27 (as claimed): when the uploads playlist is still not resolved after
\* the YouTube task of the third cycle has ended, the resolution has been
\* attempted again in a cycle after the one in which it first failed.
C27_PlaylistResolutionRetried ==
    (/\ "YouTube" \in parsers
     /\ total_checks >= 3
     /\ pc["YouTube"] \in {"done", "failed"}
     /\ ~yt.uploads_playlist_id) => yt.resolves >= 2

\* the call of the adapter under observation, made on other answers
C28_Call(answers) ==
    CASE ad.adapter = "VK" -> vk_get_comments(ad.listed, answers, ad.limit)
      [] ad.adapter = "Reddit" -> reddit_get_comments(ad.listed, answers, ad.limit)
      [] OTHER -> youtube_get_comments(ad.listed, answers, ad.limit)

\* the answers with an empty answer in the place of every failed one
C28_FailedAsEmpty ==
    [p \in DOMAIN ad.answers |->
        IF ad.answers[p].status = "failed" THEN Answer("items", <<>>) ELSE ad.answers[p]]

\* C28: a call of get_comments raises only in the YouTube adapter and only
\* when a request met the exceeded quota.  When it returns after the
\* containers were listed, a container whose request failed counts as one
\* without comments: the list returned is the one returned had the request
\* been answered with no items, and a visible comment of a container that
\* was fetched is in the list unless the list is cut at the limit.
C28_ContainerFailureIsolated ==
    (ad.adapter # "none" /\ ad.called) =>
        /\ ad.returned.raised <=>
              /\ ad.adapter = "YouTube"
              /\ \/ ad.listed = "quota"
                 \/ \E p \in DOMAIN ad.answers : ad.answers[p].status = "quota"
        /\ (ad.listed = "items" /\ ~ad.returned.raised) =>
              /\ ad.returned = C28_Call(C28_FailedAsEmpty)
              /\ \A p \in DOMAIN ad.answers :
                    \A k \in 1..Len(ad.answers[p].items) :
                       LET item == ad.answers[p].items[k] IN
                       (ad.answers[p].status = "items" /\ item.text = <<"x", " ">>) =>
                          \/ Len(ad.returned.comments) = ad.limit
                          \/ \E j \in 1..Len(ad.returned.comments) :
                                /\ str_strip(ad.returned.comments[j].text) = <<"x">>
                                /\ ad.returned.comments[j].timestamp.wall = item.date

\* C28 witness: the request for one container has failed, and the call has
\* returned the comments of another
C28_Witness ==
    /\ ad.adapter # "none"
    /\ ad.called
    /\ \E p \in DOMAIN ad.answers : ad.answers[p].status = "failed"
    /\ \E p \in DOMAIN ad.answers : ad.answers[p].items # <<>>
    /\ ad.returned.comments # <<>>

\* what the call under observation has collected from the containers
C29_Collected ==
    IF ad.listed # "items" THEN <<>>
    ELSE CASE ad.adapter = "VK" -> vk_all(ad.answers, 1)
           [] ad.adapter = "Reddit" -> reddit_all(ad.answers, 1)
           [] OTHER -> youtube_all(ad.answers, 1)

C29_Count(c, seq) == Cardinality({i \in 1..Len(seq) : seq[i] = c})

\* C29: the list get_comments(limit) returns is sorted by timestamp, the
\* newest first, has at most limit elements, all of what was collected when
\* that is no more than limit, and holds collected comments only, each as
\* often as it was collected at most; a collected comment newer than one
\* of the list is in the list as often as it was collected.
C29_LimitNewestSorted ==
    (ad.adapter # "none" /\ ad.called /\ ~ad.returned.raised) =>
        LET out == ad.returned.comments
            all == C29_Collected
        IN  /\ IsSorted(out)
            /\ Len(out) <= ad.limit
            /\ Len(out) = Min(ad.limit, Len(all))
            /\ \A c \in Range(out) : C29_Count(c, out) <= C29_Count(c, all)
            /\ \A c \in Range(all) :
                  (\E j \in 1..Len(out) :
                      Instant(c.timestamp) > Instant(out[j].timestamp)) =>
                     C29_Count(c, out) = C29_Count(c, all)

\* C29 witness: more was collected than the limit allows, and the list
\* returned is not the head of what was collected
C29_Witness ==
    /\ ad.adapter # "none"
    /\ ad.called
    /\ ~ad.returned.raised
    /\ Len(C29_Collected) > ad.limit
    /\ Len(ad.returned.comments) = ad.limit
    /\ ad.returned.comments # Slice(C29_Collected, ad.limit)

\* C30 (as claimed): no comment of a list returned by get_comments has an
\* empty text, and no reply an empty body; no comment returned by the
\* Reddit adapter has the body of a deleted comment.
C30_NoEmptyOrDeletedItem ==
    (ad.adapter # "none" /\ ad.called) =>
        \A j \in 1..Len(ad.returned.comments) :
           LET text == ad.returned.comments[j].text IN
           /\ text # <<>>
           /\ text # ReplyMark
           /\ ad.adapter = "Reddit" => text \notin {Deleted, ReplyMark \o Deleted}

\* C25 (as claimed): when the request for the posts of the VK task has
\* failed (its retries used up, or a status that is not retried), the task
\* ends as a failed one: the error counters go up by one and the list
\* stored for the source stays as it was.
C25_TransportFailureIsError ==
    [][(pc["VK"] = "fetch" /\ pc'["VK"] # "fetch" /\ ad'.listed = "none") =>
          /\ pc'["VK"] = "failed"
          /\ result'["VK"].error # "none"
          /\ total_errors' = total_errors + 1
          /\ parser_stats'["VK"].errors = parser_stats["VK"].errors + 1
          /\ last_comments' = last_comments]_vars

\* C40 (as claimed): two comments have the same dedup key only if they have
\* the same author, the same text and the same url.
C40_KeyInjective ==
    (kKeys # <<>> /\ kKeys[1] = kKeys[2]) => Triple(kPair[1]) = Triple(kPair[2])

\* the entry of the source s in the stored lists lc, absent or a list
C38_Entry(lc, s) == IF s \in DOMAIN lc THEN <<lc[s]>> ELSE <<>>

\* C38: from the start of a cycle until the task of a source has returned
\* from get_comments, and after it has ended in an exception, no step
\* changes the entry of that source in last_comments; the step in which a
\* task ends in an exception changes no entry at all.
C38_FailedTaskLeavesState ==
    [][\A s \in parsers :
          /\ pc'[s] \in {"fetch", "failed"} =>
                C38_Entry(last_comments', s) = C38_Entry(last_comments, s)
          /\ (pc[s] = "fetch" /\ pc'[s] = "failed") => last_comments' = last_comments]_vars

\* C38 witness: the YouTube task has ended with the exceeded quota and has
\* no entry, and the task of another source has stored its batch
C38_Witness ==
    /\ "YouTube" \in parsers
    /\ pc["YouTube"] = "failed"
    /\ result["YouTube"].error = "quota"
    /\ "YouTube" \notin DOMAIN last_comments
    /\ \E t \in parsers \ {"YouTube"} :
          pc[t] = "done" /\ t \in DOMAIN last_comments /\ last_comments[t] # <<>>

\* C35 (as claimed): a task that is done and had more than 3 new comments
\* has sent one message for its source, and a task that had 3 or fewer has
\* sent one message for each.  Every entry of sink is one message sent by
\* send_comment.
C35_BatchSummaryAboveThree ==
    \A s \in parsers :
        pc[s] = "done" =>
            /\ Len(result[s].new_comments) > 3 => Len(sink[s]) = 1
            /\ Len(result[s].new_comments) <= 3 => sink[s] = result[s].new_comments

\* C37 (as claimed): once a task whose get_comments returned is done, the
\* key of every comment it has sent is the key of a comment in the list
\* stored for its source.
C37_SentItemsAreStored ==
    \A s \in parsers :
        (pc[s] = "done" /\ s \in DOMAIN last_comments) =>
            \A i \in 1..Len(sink[s]) : Key(sink[s][i]) \in known_comments(last_comments[s])

\* the candidates of the batch whose timestamp is a datetime, in order
C33_WellFormed ==
    LET Good(comment) == is_datetime(comment.timestamp)
    IN  SelectSeq(fArgs.current_comments, Good)

\* C33: get_new_comments returns for a batch what it returns for the batch
\* without its candidates of malformed timestamp, and none of these is in
\* what it returns.
C33_MalformedDroppedAlone ==
    \A k \in 1..Len(fOut) :
        /\ fOut[k] = get_new_comments(fArgs.parser_name, C33_WellFormed)
        /\ \A i \in 1..Len(fOut[k]) : is_datetime(fOut[k][i].timestamp)

\* C33 witness: a call on a batch with a malformed candidate between two
\* others has returned the two
C33_Witness ==
    /\ Len(fOut) >= 1
    /\ Len(fArgs.current_comments) = 3
    /\ ~is_datetime(fArgs.current_comments[2].timestamp)
    /\ fOut[1] = <<fArgs.current_comments[1], fArgs.current_comments[3]>>

\* C32 (as claimed): a comment returned by the VK adapter passes the test
\* against parser_start_time exactly when the instant at which it was
\* written, in UTC, is at or after parser_start_time, whatever the offset of
\* the local time of the host.
C32_EpochTestOnUtcInstant ==
    (ad.adapter = "VK" /\ ad.called) =>
        \A i \in 1..Len(ad.returned.comments) :
           LET comment == ad.returned.comments[i] IN
           PassesStart(comment) <=>
              comment.timestamp.wall - ad.utcoffset >= parser_start_time

\* C34: a cycle starts only when no cycle is in progress: every task of the
\* cycle before has ended and, when there are parsers, its save_state has
\* returned once; while a cycle is in progress every task is in it, and
\* between cycles none is.
C34_OneCycleAtATime ==
    /\ [](phase = "cycling" => \A s \in parsers : pc[s] # "idle")
    /\ [](phase = "idle" => \A s \in parsers : pc[s] = "idle")
    /\ [][total_checks' # total_checks =>
             /\ total_checks' = total_checks + 1
             /\ phase = "idle"
             /\ \A s \in parsers : pc[s] = "idle"
             /\ (total_checks > 0 /\ parsers # {}) => saves = 1]_vars

\* C34 witness: the third cycle is in progress, after two that have ended
\* with a save
C34_Witness ==
    /\ phase = "cycling"
    /\ total_checks = 3
    /\ \E s \in parsers : pc[s] = "fetch"
    /\ \E s \in parsers : pc[s] = "done"

\* the authors, texts and urls of a stored list, in its order
C36_Triples(list) == [i \in 1..Len(list) |-> Triple(list[i])]

C31_BackoffSchedule ==
    rq.client # "none" =>
        \A i \in 1..Len(rq.waits) :
           LET w == rq.waits[i] IN
           /\ w.attempt < max_retries - 1
           /\ w.after = "timeout" => w.wait = 2 ^ w.attempt
           /\ w.after = "429" => w.wait = 5 * (w.attempt + 1)

\* C39 (as claimed): the author of every comment get_comments of the VK
\* adapter returns is the name its own post's answer gives for its from_id
\* (so the same in every cycle and whatever the order the requests of the
\* posts complete in).
C39_AuthorFromOwnPost ==
    (ad.adapter = "VK" /\ ad.gathered) =>
        \A i \in 1..Len(ad.returned) :
           LET c == ad.returned[i] IN
           c.author = vk_author_name(c.from_id, ad.answers[c.post_id].profiles)

====
